---- MODULE Spec2Model ----
\* Bytecode compiler and stack VM of srivastavcodes/bytecode-compiler:
\* instruction encoding (code/defs.go), symbol table, compiler
\* (compiler/compiler.go), virtual machine (vm/vm.go), the REPL driver
\* (repl/repl.go) and the built-ins of the tree-walking evaluator
\* (evaluator/builtins.go).
EXTENDS Integers, Sequences, FiniteSets, TLC

\* ---------------------------------------------------------------------
\* Go's nil.  Objects are records tagged by `type`, AST nodes records
\* tagged by `kind`; the two tags are declared here, ahead of every other
\* field, so that records are told apart by their tag.
\* ---------------------------------------------------------------------
\* the nil interface value (a slot of make([]object.Object, n) never written)
nil == [type |-> "nil"]
\* a nil *ast.BlockStatement (an if without else)
nilNode == [kind |-> "nil"]

\* ---------------------------------------------------------------------
\* Bounds of the model
\* ---------------------------------------------------------------------
\* integer literals of generated programs are 0..MaxInt
MaxInt == 2
\* number of lines read in one REPL session
MaxLines == 3
\* number of instructions of a stream handed to Instructions.String
MaxStream == 3
\* number of symbol tables in a chain of enclosed tables
MaxTables == 3
\* number of Define calls made on the tables of a chain
MaxDefines == 4
\* number of statements of a program handed to the evaluator
MaxStatements == 3
\* number of statements "a;" that come before the last statement of a
\* long program: their code is 4 * BigStatements = 65536 bytes
BigStatements == 16384

\* ---------------------------------------------------------------------
\* code/defs.go : opcodes, definitions, encoding
\* ---------------------------------------------------------------------
OpConstant == 0
OpPop == 1
OpAdd == 2
OpSub == 3
OpMul == 4
OpDiv == 5
OpTrue == 6
OpFalse == 7
OpEqual == 8
OpNotEqual == 9
OpGreaterThan == 10
OpMinus == 11
OpBang == 12
OpJumpNotTruthy == 13
OpJump == 14
OpNull == 15
OpGetGlobal == 16
OpSetGlobal == 17
OpArray == 18
OpHash == 19
OpIndex == 20
OpCall == 21
OpReturnValue == 22
OpReturn == 23
OpGetLocal == 24
OpSetLocal == 25

\* var definitions = map[Opcode]*Definition{...}
definitions ==
  [op \in 0..25 |->
     CASE op = OpConstant      -> [Name |-> "OpConstant", OperandWidth |-> <<2>>]
       [] op = OpPop           -> [Name |-> "OpPop", OperandWidth |-> <<>>]
       [] op = OpAdd           -> [Name |-> "OpAdd", OperandWidth |-> <<>>]
       [] op = OpSub           -> [Name |-> "OpSub", OperandWidth |-> <<>>]
       [] op = OpMul           -> [Name |-> "OpMul", OperandWidth |-> <<>>]
       [] op = OpDiv           -> [Name |-> "OpDiv", OperandWidth |-> <<>>]
       [] op = OpTrue          -> [Name |-> "OpTrue", OperandWidth |-> <<>>]
       [] op = OpFalse         -> [Name |-> "OpFalse", OperandWidth |-> <<>>]
       [] op = OpEqual         -> [Name |-> "OpEqual", OperandWidth |-> <<>>]
       [] op = OpNotEqual      -> [Name |-> "OpNotEqual", OperandWidth |-> <<>>]
       [] op = OpGreaterThan   -> [Name |-> "OpGreaterThan", OperandWidth |-> <<>>]
       [] op = OpMinus         -> [Name |-> "OpMinus", OperandWidth |-> <<>>]
       [] op = OpBang          -> [Name |-> "OpBang", OperandWidth |-> <<>>]
       [] op = OpJumpNotTruthy -> [Name |-> "OpJumpNotTruthy", OperandWidth |-> <<2>>]
       [] op = OpJump          -> [Name |-> "OpJump", OperandWidth |-> <<2>>]
       [] op = OpNull          -> [Name |-> "OpNull", OperandWidth |-> <<>>]
       [] op = OpGetGlobal     -> [Name |-> "OpGetGlobal", OperandWidth |-> <<2>>]
       [] op = OpSetGlobal     -> [Name |-> "OpSetGlobal", OperandWidth |-> <<2>>]
       [] op = OpArray         -> [Name |-> "OpArray", OperandWidth |-> <<2>>]
       [] op = OpHash          -> [Name |-> "OpHash", OperandWidth |-> <<2>>]
       [] op = OpIndex         -> [Name |-> "OpIndex", OperandWidth |-> <<>>]
       [] op = OpCall          -> [Name |-> "OpCall", OperandWidth |-> <<>>]
       [] op = OpReturnValue   -> [Name |-> "OpReturnValue", OperandWidth |-> <<>>]
       [] op = OpReturn        -> [Name |-> "OpReturn", OperandWidth |-> <<>>]
       [] op = OpGetLocal      -> [Name |-> "OpGetLocal", OperandWidth |-> <<1>>]
       [] op = OpSetLocal      -> [Name |-> "OpSetLocal", OperandWidth |-> <<1>>]]

\* uint16(opr): conversion of an int to 16 bits
Uint16(opr) == opr % 65536

\* binary.BigEndian.PutUint16
PutUint16(v) == << v \div 256, v % 256 >>

\* ReadUint16(ins): the two bytes at the head of ins, big-endian.
\* ins is the slice; the caller guarantees it holds two bytes (Go panics
\* otherwise, see HasUint16).
ReadUint16(ins) == ins[1] * 256 + ins[2]

\* make([]byte, n): n zero bytes
ZeroBytes(n) == [i \in 1..n |-> 0]

RECURSIVE EncodeOperands(_, _, _)
\* the loop of MakeInstruction over the operands: only a width of 2 is
\* written, any other declared width keeps the zero bytes of make()
EncodeOperands(widths, operands, i) ==
  IF i > Len(widths) THEN << >>
  ELSE (IF i <= Len(operands) /\ widths[i] = 2
          THEN PutUint16(Uint16(operands[i]))
          ELSE ZeroBytes(widths[i]))
       \o EncodeOperands(widths, operands, i + 1)

\* MakeInstruction(op, operands...) for len(operands) <= len(OperandWidth);
\* with more operands than declared widths the Go code indexes
\* def.OperandWidth out of range.
MakeInstruction(op, operands) ==
  IF op \notin DOMAIN definitions THEN << >>
  ELSE <<op>> \o EncodeOperands(definitions[op].OperandWidth, operands, 1)

\* Lookup(op): whether the opcode is defined
Lookup(op) == op \in DOMAIN definitions

RECURSIVE ReadOperandsLoop(_, _, _, _)
\* the loop of ReadOperands from operand i on, offset bytes into ins: only
\* a width of 2 is decoded, any other width leaves the 0 of make()
ReadOperandsLoop(widths, ins, i, offset) ==
  IF i > Len(widths) THEN [operands |-> << >>, read |-> offset]
  ELSE LET rest == ReadOperandsLoop(widths, ins, i + 1, offset + widths[i])
           operand == IF widths[i] = 2
                        THEN ReadUint16(SubSeq(ins, offset + 1, Len(ins)))
                        ELSE 0
       IN [operands |-> <<operand>> \o rest.operands, read |-> rest.read]

\* ReadOperands(def, ins): the operands and the number of bytes read
ReadOperands(def, ins) == ReadOperandsLoop(def.OperandWidth, ins, 1, 0)

RECURSIVE Disassemble(_, _)
\* the loop of Instructions.String from offset i on: the instructions of
\* the stream, each with its offset, opcode and operands (an undefined
\* opcode is skipped as the loop skips it)
Disassemble(in, i) ==
  IF i >= Len(in) THEN {}
  ELSE IF ~Lookup(in[i + 1]) THEN Disassemble(in, i + 1)
  ELSE LET def == definitions[in[i + 1]]
           r == ReadOperands(def, SubSeq(in, i + 2, Len(in)))
       IN {[pos |-> i, op |-> in[i + 1], operands |-> r.operands]}
          \cup Disassemble(in, i + 1 + r.read)

RECURSIVE Decimal(_)
\* the decimal digits of n >= 0, most significant first (%d)
Decimal(n) == IF n < 10 THEN <<n>> ELSE Decimal(n \div 10) \o <<n % 10>>

\* fmt's %04d of n >= 0: the decimal digits, padded with zeros on the left
\* up to four characters (more digits are printed in full)
Fmt04d(n) ==
  LET ds == Decimal(n)
  IN IF Len(ds) >= 4 THEN ds ELSE [i \in 1..(4 - Len(ds)) |-> 0] \o ds

\* in.instructionFmt(def, operands): the parts of the text, an operand by
\* its decimal digits
instructionFmt(def, operands) ==
  LET operandCount == Len(def.OperandWidth)
  IN IF Len(operands) # operandCount
       THEN <<"ERROR: operand len does not match defined", Len(operands), operandCount>>
     ELSE CASE operandCount = 0 -> <<def.Name>>
            [] operandCount = 1 -> <<def.Name, Decimal(operands[1])>>
            [] OTHER -> <<"ERROR: unhandled operandCount for", def.Name>>

RECURSIVE StringFrom(_, _)
\* the loop of Instructions.String from offset i on: the lines written,
\* each the %04d offset and the text of the instruction
StringFrom(in, i) ==
  IF i >= Len(in) THEN << >>
  ELSE IF ~Lookup(in[i + 1])
    THEN <<[error |-> <<"opcode undefined", in[i + 1]>>]>> \o StringFrom(in, i + 1)
  ELSE LET def == definitions[in[i + 1]]
           r == ReadOperands(def, SubSeq(in, i + 2, Len(in)))
       IN <<[offset |-> Fmt04d(i), str |-> instructionFmt(def, r.operands)]>>
          \o StringFrom(in, i + 1 + r.read)

\* in.String()
InstructionsString(in) == StringFrom(in, 0)

\* ---------------------------------------------------------------------
\* object values (package object is used through Type(), Value and the
\* singletons declared in vm/vm.go)
\* ---------------------------------------------------------------------
INTEGER_OBJ == "INTEGER"
BOOLEAN_OBJ == "BOOLEAN"
NULL_OBJ == "NULL"
STRING_OBJ == "STRING"
ARRAY_OBJ == "ARRAY"
HASH_OBJ == "HASH"

\* var ( True = ...; False = ...; Null = ... )
True == [type |-> BOOLEAN_OBJ, Value |-> TRUE]
False == [type |-> BOOLEAN_OBJ, Value |-> FALSE]
Null == [type |-> NULL_OBJ]

\* &object.Integer{Value: n}
Integer(n) == [type |-> INTEGER_OBJ, Value |-> n]
\* &object.String{Value: s}; ref is the identity of the allocation
String(s, ref) == [type |-> STRING_OBJ, Value |-> s, ref |-> ref]
\* &object.Array{Elements: e}
Array(e, ref) == [type |-> ARRAY_OBJ, Elements |-> e, ref |-> ref]
\* &object.Hash{Pairs: p}; Pairs is a function from hash keys to pairs
Hash(p, ref) == [type |-> HASH_OBJ, Pairs |-> p, ref |-> ref]

StackSize == 2048
GlobalsSize == 65536

\* A []object.Object that only grows by append (the constant pool) is held
\* as the runs of equal consecutive objects it is made of: <<[ob, n], ...>>
\* stands for n copies of ob followed by the next run.
\* []object.Object{}
NoObjects == << >>

\* n copies of ob
Repeat(ob, n) == IF n = 0 THEN NoObjects ELSE <<[ob |-> ob, n |-> n]>>

RECURSIVE NumObjectsFrom(_, _)
NumObjectsFrom(cs, k) ==
  IF k > Len(cs) THEN 0 ELSE cs[k].n + NumObjectsFrom(cs, k + 1)
\* len(cs)
NumObjects(cs) == NumObjectsFrom(cs, 1)

\* append(cs, ob)
AppendObject(cs, ob) ==
  IF Len(cs) > 0 /\ cs[Len(cs)].ob.type = ob.type /\ cs[Len(cs)].ob = ob
    THEN [cs EXCEPT ![Len(cs)].n = cs[Len(cs)].n + 1]
    ELSE Append(cs, [ob |-> ob, n |-> 1])

RECURSIVE ObjectAtFrom(_, _, _)
ObjectAtFrom(cs, k, i) ==
  IF i < cs[k].n THEN cs[k].ob ELSE ObjectAtFrom(cs, k + 1, i - cs[k].n)
\* cs[i] for 0 <= i < len(cs)
ObjectAt(cs, i) == ObjectAtFrom(cs, 1, i)

RECURSIVE ObjectsFrom(_, _)
ObjectsFrom(obs, k) ==
  IF k = 0 THEN NoObjects ELSE AppendObject(ObjectsFrom(obs, k - 1), obs[k])
\* []object.Object{obs[1], ..., obs[n]}
Objects(obs) == ObjectsFrom(obs, Len(obs))

\* ---------------------------------------------------------------------
\* AST nodes produced by the parser (package ast), as tagged records
\* ---------------------------------------------------------------------
IntegerLiteral(n) == [kind |-> "IntegerLiteral", Value |-> n]
Boolean(b) == [kind |-> "Boolean", Value |-> b]
StringLiteral(s) == [kind |-> "StringLiteral", Value |-> s]
Identifier(x) == [kind |-> "Identifier", Value |-> x]
ArrayLiteral(es) == [kind |-> "ArrayLiteral", Elements |-> es]
HashLiteral(ps) == [kind |-> "HashLiteral", Pairs |-> ps]
IndexExpression(l, i) == [kind |-> "IndexExpression", Left |-> l, Index |-> i]
PrefixExpression(o, r) == [kind |-> "PrefixExpression", Operator |-> o, Right |-> r]
InfixExpression(l, o, r) ==
  [kind |-> "InfixExpression", Left |-> l, Operator |-> o, Right |-> r]
BlockStatement(ss) == [kind |-> "BlockStatement", Statements |-> ss]
IfExpression(c, a, b) ==
  [kind |-> "IfExpression", Condition |-> c, Consequence |-> a, Alternative |-> b]
ExpressionStatement(e) == [kind |-> "ExpressionStatement", Expression |-> e]
LetStatement(x, e) == [kind |-> "LetStatement", Name |-> x, Value |-> e]
CallExpression(f, as) == [kind |-> "CallExpression", Function |-> f, Arguments |-> as]
RootStatement(ss) == [kind |-> "RootStatement", Statements |-> ss]

\* ---------------------------------------------------------------------
\* errors: the nil error and the messages built by fmt.Errorf, kept as the
\* format's parts
\* ---------------------------------------------------------------------
NoErr == << >>

\* ---------------------------------------------------------------------
\* symbol table
\* ---------------------------------------------------------------------
GlobalScope == "GLOBAL"
LocalScope == "LOCAL"

\* a nil *SymbolTable
nilTable == [isNil |-> TRUE]

\* NewSymbolTable()
NewSymbolTable == [Outer |-> nilTable, store |-> << >>, defCount |-> 0]

\* NewEnclosedSymbolTable(outer)
NewEnclosedSymbolTable(outer) == [NewSymbolTable EXCEPT !.Outer = outer]

\* a Define that gives a name that is already defined the symbol it has
Define_reuse(s, name) ==
  IF name \in DOMAIN s.store
    THEN [symbol |-> s.store[name], table |-> s]
    ELSE LET symbol == [Name |-> name,
                        Scope |-> IF s.Outer = nilTable THEN GlobalScope ELSE LocalScope,
                        Index |-> s.defCount]
         IN [symbol |-> symbol,
             table |-> [s EXCEPT
                          !.store = [n \in (DOMAIN s.store) \cup {name} |->
                                       IF n = name THEN symbol ELSE s.store[n]],
                          !.defCount = s.defCount + 1]]

\* s.Define(name): the symbol returned and the table after the call
Define(s, name) ==
  LET symbol == [Name |-> name,
                 Scope |-> IF s.Outer = nilTable THEN GlobalScope ELSE LocalScope,
                 Index |-> s.defCount]
  IN [symbol |-> symbol,
      table |-> [s EXCEPT
                   !.store = [n \in (DOMAIN s.store) \cup {name} |->
                                IF n = name THEN symbol ELSE s.store[n]],
                   !.defCount = s.defCount + 1]]

\* the zero Symbol returned on a miss
zeroSymbol == [Name |-> "", Scope |-> "", Index |-> 0]

\* a Resolve that never follows Outer
Resolve_local(s, name) ==
  IF name \in DOMAIN s.store
    THEN [symbol |-> s.store[name], ok |-> TRUE]
    ELSE [symbol |-> zeroSymbol, ok |-> FALSE]

RECURSIVE Resolve(_, _)
\* s.Resolve(name)
Resolve(s, name) ==
  IF name \in DOMAIN s.store
    THEN [symbol |-> s.store[name], ok |-> TRUE]
    ELSE IF s.Outer # nilTable
           THEN Resolve(s.Outer, name)
           ELSE [symbol |-> zeroSymbol, ok |-> FALSE]

\* ---------------------------------------------------------------------
\* compiler/compiler.go
\* The compiler object is a record; every method takes it and returns it.
\* err is the error a Compile call returned (NoErr for nil). newDefs and
\* constLog are history fields: the names passed to Define, in order, and
\* for every IntegerLiteral compiled the offset of its OpConstant and the
\* object that was added for it.
\* ---------------------------------------------------------------------
\* EmittedInstruction{}
zeroEmitted == [OpCode |-> 0, Position |-> 0]

\* NewCompiler()
NewCompiler ==
  [instructions |-> << >>,
   constants |-> NoObjects,
   lastInstruction |-> zeroEmitted,
   previousInstruction |-> zeroEmitted,
   symbolTable |-> NewSymbolTable,
   err |-> NoErr,
   newDefs |-> << >>,
   constLog |-> {},
   callLog |-> << >>]

\* NewWithState(sym, consts)
NewWithState(sym, consts) ==
  [NewCompiler EXCEPT !.symbolTable = sym, !.constants = consts]

\* c.addConstant(ob): the index returned and the compiler after the call
addConstant(c, ob) ==
  LET cs == AppendObject(c.constants, ob)
  IN [index |-> NumObjects(cs) - 1, c |-> [c EXCEPT !.constants = cs]]

\* c.addInstruction(ins)
addInstruction(c, ins) ==
  [pos |-> Len(c.instructions),
   c |-> [c EXCEPT !.instructions = c.instructions \o ins]]

\* c.setLastInstruction(op, pos)
setLastInstruction(c, op, pos) ==
  [c EXCEPT !.previousInstruction = c.lastInstruction,
            !.lastInstruction = [OpCode |-> op, Position |-> pos]]

\* c.emit(op, operands...): the position returned and the compiler after.
\* callLog, a history field, gets one entry per call of emit and of
\* removeLastPop: the length of the stream before and after the call and
\* lastInstruction after it.  w holds what addInstruction returned, the
\* position (the length before the call) and the compiler.
emit(c, op, operands) ==
  [[w |-> addInstruction(c, MakeInstruction(op, operands))] EXCEPT !.w =
     LET a == @
         c1 == setLastInstruction(a.c, op, a.pos)
     IN [pos |-> a.pos,
         c |-> [c1 EXCEPT !.callLog =
                  Append(@, [call |-> "emit", op |-> op,
                             from |-> a.pos,
                             len |-> Len(c1.instructions),
                             last |-> c1.lastInstruction])]]].w

\* c.lastInstructionIsPop()
lastInstructionIsPop(c) == c.lastInstruction.OpCode = OpPop

\* removeLastPop that cuts the stream and leaves lastInstruction as it is
removeLastPop_keeplast(c) ==
  [c EXCEPT !.instructions = SubSeq(c.instructions, 1, c.lastInstruction.Position),
            !.callLog =
               Append(@, [call |-> "removeLastPop", op |-> OpPop,
                          from |-> Len(c.instructions),
                          len |-> c.lastInstruction.Position,
                          last |-> c.lastInstruction])]

\* c.removeLastPop()
removeLastPop(c) ==
  [c EXCEPT !.instructions = SubSeq(c.instructions, 1, c.lastInstruction.Position),
            !.lastInstruction = c.previousInstruction,
            !.callLog =
               Append(@, [call |-> "removeLastPop", op |-> OpPop,
                          from |-> Len(c.instructions),
                          len |-> c.lastInstruction.Position,
                          last |-> c.previousInstruction])]

\* c.replaceInstruction(pos, instruction): bytes pos .. pos+len-1 are
\* overwritten (the compiler only patches instructions it has emitted, so
\* the range lies inside the stream)
replaceInstruction(c, pos, instruction) ==
  [c EXCEPT !.instructions =
     [i \in 1..Len(c.instructions) |->
        IF i - 1 >= pos /\ i - 1 < pos + Len(instruction)
          THEN instruction[i - pos]
          ELSE c.instructions[i]]]

\* changeOperand writing the new instruction one byte further on
changeOperand_next(c, pos, operand) ==
  LET op == c.instructions[pos + 1]
  IN replaceInstruction(c, pos + 1, MakeInstruction(op, <<operand>>))

\* c.changeOperand(pos, operand)
changeOperand(c, pos, operand) ==
  LET op == c.instructions[pos + 1]
  IN replaceInstruction(c, pos, MakeInstruction(op, <<operand>>))

\* c.emitInfixOp(infixExpr)
emitInfixOp(c, infixExpr) ==
  LET o == infixExpr.Operator
  IN CASE o = "+"  -> emit(c, OpAdd, << >>).c
       [] o = "-"  -> emit(c, OpSub, << >>).c
       [] o = "*"  -> emit(c, OpMul, << >>).c
       [] o = "/"  -> emit(c, OpDiv, << >>).c
       [] o = "!=" -> emit(c, OpNotEqual, << >>).c
       [] o = "==" -> emit(c, OpEqual, << >>).c
       [] o = ">"  -> emit(c, OpGreaterThan, << >>).c
       [] OTHER    -> [c EXCEPT !.err = <<"unknown operator", o>>]

RECURSIVE Compile(_, _)
RECURSIVE CompileStatements(_, _, _)
RECURSIVE compileInfix(_, _)
RECURSIVE handleJump(_, _, _)

\* the loop `for _, stmt := range node.Statements` of the RootStatement and
\* BlockStatement cases, from statement i on
CompileStatements(stmts, i, c) ==
  IF i > Len(stmts) THEN c
  ELSE LET c1 == Compile(stmts[i], c)
       IN IF c1.err # NoErr THEN c1 ELSE CompileStatements(stmts, i + 1, c1)

\* compileInfix without the case for "<": the left operand compiled first,
\* then the right, then OpGreaterThan
compileInfix_unswapped(node, c) ==
  LET c1 == Compile(node.Left, c)
  IN IF c1.err # NoErr THEN c1
     ELSE LET c2 == Compile(node.Right, c1)
          IN IF c2.err # NoErr THEN c2
             ELSE IF node.Operator = "<" THEN emit(c2, OpGreaterThan, << >>).c
             ELSE emitInfixOp(c2, node)

\* c.compileInfix(node)
compileInfix(node, c) ==
  IF node.Operator = "<"
    THEN LET c1 == Compile(node.Right, c)
         IN IF c1.err # NoErr THEN c1
            ELSE LET c2 == Compile(node.Left, c1)
                 IN IF c2.err # NoErr THEN c2
                    ELSE emit(c2, OpGreaterThan, << >>).c
    ELSE LET c1 == Compile(node.Left, c)
         IN IF c1.err # NoErr THEN c1
            ELSE LET c2 == Compile(node.Right, c1)
                 IN IF c2.err # NoErr THEN c2
                    ELSE emitInfixOp(c2, node)

\* handleJump that never patches the OpJump it emitted: the placeholder
\* operand stays
handleJump_unpatched(node, posJumpNotTruthy, c) ==
  LET j == emit(c, OpJump, <<1000>>)
      posAfterConsequence == Len(j.c.instructions)
      c1 == changeOperand(j.c, posJumpNotTruthy, posAfterConsequence)
  IN IF node.Alternative = nilNode
       THEN emit(c1, OpNull, << >>).c
       ELSE LET a == Compile(node.Alternative, c1)
            IN IF a.err # NoErr THEN a
               ELSE IF lastInstructionIsPop(a) THEN removeLastPop(a) ELSE a

\* c.handleJump(node, posJumpNotTruthy)
handleJump(node, posJumpNotTruthy, c) ==
  LET j == emit(c, OpJump, <<1000>>)
      posJump == j.pos
      posAfterConsequence == Len(j.c.instructions)
      c1 == changeOperand(j.c, posJumpNotTruthy, posAfterConsequence)
      c2 == IF node.Alternative = nilNode
              THEN emit(c1, OpNull, << >>).c
              ELSE LET a == Compile(node.Alternative, c1)
                   IN IF a.err # NoErr THEN a
                      ELSE IF lastInstructionIsPop(a) THEN removeLastPop(a) ELSE a
  IN IF c2.err # NoErr THEN c2
     ELSE changeOperand(c2, posJump, Len(c2.instructions))

\* c.Compile(node); node kinds without a case in the switch fall through
\* to `return nil` and leave the compiler as it is
Compile(node, c) ==
  CASE node.kind = "RootStatement" -> CompileStatements(node.Statements, 1, c)
    [] node.kind = "LetStatement" ->
         LET c1 == Compile(node.Value, c)
         IN IF c1.err # NoErr THEN c1
            ELSE LET d == Define(c1.symbolTable, node.Name)
                 IN emit([c1 EXCEPT !.symbolTable = d.table,
                                    !.newDefs = Append(c1.newDefs, node.Name)],
                         OpSetGlobal, <<d.symbol.Index>>).c
    [] node.kind = "Identifier" ->
         LET r == Resolve(c.symbolTable, node.Value)
         IN IF ~r.ok
              THEN [c EXCEPT !.err = <<"undefined variable:", node.Value>>]
              ELSE emit(c, OpGetGlobal, <<r.symbol.Index>>).c
    [] node.kind = "ExpressionStatement" ->
         LET c1 == Compile(node.Expression, c)
         IN IF c1.err # NoErr THEN c1 ELSE emit(c1, OpPop, << >>).c
    [] node.kind = "BlockStatement" -> CompileStatements(node.Statements, 1, c)
    [] node.kind = "PrefixExpression" ->
         LET c1 == Compile(node.Right, c)
         IN IF c1.err # NoErr THEN c1
            ELSE CASE node.Operator = "-" -> emit(c1, OpMinus, << >>).c
                   [] node.Operator = "!" -> emit(c1, OpBang, << >>).c
                   [] OTHER -> [c1 EXCEPT !.err = <<"invalid operation:", node.Operator>>]
    [] node.kind = "InfixExpression" -> compileInfix(node, c)
    [] node.kind = "IfExpression" ->
         LET c1 == Compile(node.Condition, c)
         IN IF c1.err # NoErr THEN c1
            ELSE LET j == emit(c1, OpJumpNotTruthy, <<1000>>)
                     c2 == Compile(node.Consequence, j.c)
                 IN IF c2.err # NoErr THEN c2
                    ELSE handleJump(node, j.pos,
                           IF lastInstructionIsPop(c2) THEN removeLastPop(c2) ELSE c2)
    [] node.kind = "Boolean" ->
         IF ~node.Value THEN emit(c, OpFalse, << >>).c ELSE emit(c, OpTrue, << >>).c
    [] node.kind = "IntegerLiteral" ->
         LET a == addConstant(c, Integer(node.Value))
             e == emit(a.c, OpConstant, <<a.index>>)
         IN [e.c EXCEPT !.constLog =
               e.c.constLog \cup {[pos |-> e.pos, ob |-> Integer(node.Value)]}]
    [] OTHER -> c

\* c.ByteCode()
ByteCode(c) == [Instructions |-> c.instructions, Constants |-> c.constants]

\* ---------------------------------------------------------------------
\* vm/vm.go
\* The VM object is a record; every method takes it and returns it.
\*   stack, globals : the slices, as functions from the indices that hold
\*                    a non-nil object (every other slot is nil)
\*   ip             : the loop variable of RunVM
\*   err            : the error returned by the handler / by RunVM
\*   panic          : the Go run-time panic raised, NoPanic when none; a
\*                    panic ends the process, nothing runs after it
\*   nextRef        : number of objects allocated so far (their identity)
\* ---------------------------------------------------------------------
NoPanic == << >>
\* runtime error: index out of range [i]
IndexOutOfRange(i) == <<"index out of range", i>>
\* runtime error: invalid memory address or nil pointer dereference
NilDereference == <<"nil pointer dereference">>

\* make([]object.Object, n): every slot nil
emptySlice == [i \in {} |-> nil]

\* s[i] of a slice of capacity n held as above, for 0 <= i < n
At(s, i) == IF i \in DOMAIN s THEN s[i] ELSE nil

\* s[i] = ob
Put(s, i, ob) ==
  IF ob = nil
    THEN [j \in (DOMAIN s) \ {i} |-> s[j]]
    ELSE [j \in (DOMAIN s) \cup {i} |-> IF j = i THEN ob ELSE s[j]]

\* ob.Type() of a non-nil object
Type(ob) == ob.type

\* NewVM(bytecode)
NewVM(bytecode) ==
  [instructions |-> bytecode.Instructions,
   constants |-> bytecode.Constants,
   stack |-> emptySlice,
   sp |-> 0,
   globals |-> emptySlice,
   sharedGlobals |-> FALSE,
   ip |-> 0,
   status |-> "running",
   err |-> NoErr,
   panic |-> NoPanic,
   nextRef |-> 0]

\* NewVMWithGlobalsStore(bytecode, globals)
NewVMWithGlobalsStore(bytecode, gs) ==
  [NewVM(bytecode) EXCEPT !.globals = gs, !.sharedGlobals = TRUE]

\* vm.LastPoppedStackElement() for sp < StackSize
LastPoppedStackElement(m) == At(m.stack, m.sp)

Panic(m, why) == [m EXCEPT !.panic = why]
Fail(m, e) == [m EXCEPT !.err = e]

\* vm.pop(): the object returned and the VM after the call
pop(m) ==
  IF m.sp - 1 < 0 \/ m.sp - 1 >= StackSize
    THEN [ob |-> nil, vm |-> Panic(m, IndexOutOfRange(m.sp - 1))]
    ELSE [ob |-> At(m.stack, m.sp - 1), vm |-> [m EXCEPT !.sp = m.sp - 1]]

\* vm.push(ob)
push(m, ob) ==
  IF m.sp >= StackSize
    THEN Fail(m, <<"stack overflow">>)
    ELSE [m EXCEPT !.stack = Put(m.stack, m.sp, ob), !.sp = m.sp + 1]

\* boolNativeToBoolObject(input)
boolNativeToBoolObject(input) == IF input THEN True ELSE False

\* isTruthy that takes the Integer 0 for false as well
isTruthy_zerofalsy(condition) ==
  CASE condition # nil /\ Type(condition) = BOOLEAN_OBJ -> condition.Value
    [] condition # nil /\ Type(condition) = NULL_OBJ -> FALSE
    [] condition # nil /\ Type(condition) = INTEGER_OBJ -> condition.Value # 0
    [] OTHER -> TRUE

\* isTruthy(condition)
isTruthy(condition) ==
  CASE condition # nil /\ Type(condition) = BOOLEAN_OBJ -> condition.Value
    [] condition # nil /\ Type(condition) = NULL_OBJ -> FALSE
    [] OTHER -> TRUE

\* Go's int64 quotient, truncated toward zero
Quo(a, b) ==
  LET aa == IF a < 0 THEN -a ELSE a
      bb == IF b < 0 THEN -b ELSE b
      q == aa \div bb
  IN IF (a < 0) = (b < 0) THEN q ELSE -q

\* ---------------------------------------------------------------------
\* int64.  object.Integer holds an int64; Go's +, - and * on int64 keep the
\* low 64 bits of the result.  An int64 is computed with as its 8
\* two's-complement bytes, least significant first; an Integer object keeps
\* it in Value when it fits 32 bits and in Int64, as the bytes, when not.
\* ---------------------------------------------------------------------
RECURSIVE AddDigits(_, _, _, _)
\* the base-256 digits of a + b + carry from digit i on, as many as a has
AddDigits(a, b, i, carry) ==
  IF i > Len(a) THEN << >>
  ELSE LET sum == a[i] + b[i] + carry
       IN <<sum % 256>> \o AddDigits(a, b, i + 1, sum \div 256)

RECURSIVE Column(_, _, _, _)
\* a[1]*b[k] + a[2]*b[k-1] + ... + a[i]*b[k+1-i]
Column(a, b, k, i) ==
  IF i = 0 THEN 0 ELSE a[i] * b[k + 1 - i] + Column(a, b, k, i - 1)

RECURSIVE MulDigits(_, _, _, _)
\* the base-256 digits of a * b from digit k on, as many as a has
MulDigits(a, b, k, carry) ==
  IF k > Len(a) THEN << >>
  ELSE LET col == Column(a, b, k, k) + carry
       IN <<col % 256>> \o MulDigits(a, b, k + 1, col \div 256)

\* ^a
Not64(a) == [i \in 1..Len(a) |-> 255 - a[i]]
\* -a
Neg64(a) == AddDigits(Not64(a), [i \in 1..Len(a) |-> 0], 1, 1)
\* a + b, a - b and a * b of two int64
Add64(a, b) == AddDigits(a, b, 1, 0)
Sub64(a, b) == AddDigits(a, Not64(b), 1, 1)
Mul64(a, b) == MulDigits(a, b, 1, 0)

\* the sign bit
Negative64(a) == a[8] >= 128

\* the bytes of a number of at most 31 bits
Digits64(n) == [i \in 1..8 |-> IF i <= 4 THEN (n \div 256 ^ (i - 1)) % 256 ELSE 0]
\* int64(n)
ToInt64(n) == IF n >= 0 THEN Digits64(n) ELSE Neg64(Digits64(-n))

\* the int64 is one of -(2^31 - 1) .. 2^31 - 1
Fits32(a) ==
  LET mag == IF Negative64(a) THEN Neg64(a) ELSE a
  IN mag[4] < 128 /\ \A i \in 5..8 : mag[i] = 0

\* the number an int64 of at most 31 bits is
FromInt64(a) ==
  LET mag == IF Negative64(a) THEN Neg64(a) ELSE a
      n == mag[1] + 256 * mag[2] + 65536 * mag[3] + 16777216 * mag[4]
  IN IF Negative64(a) THEN -n ELSE n

\* &object.Integer{Value: a}
Integer64(a) ==
  IF Fits32(a) THEN Integer(FromInt64(a)) ELSE [type |-> INTEGER_OBJ, Int64 |-> a]

\* ob.(*object.Integer).Value
Value64(ob) == IF "Value" \in DOMAIN ob THEN ToInt64(ob.Value) ELSE ob.Int64

\* lval / rval; operands beyond 32 bits are divided in no specification
Quo64(a, b) == ToInt64(Quo(FromInt64(a), FromInt64(b)))

\* the Integer is one of -32767 .. 32767: the sum, the difference and the
\* product of two of these are below 2^31 and are their int64 results
Short(ob) == "Value" \in DOMAIN ob /\ ob.Value > -32768 /\ ob.Value < 32768

\* executeBinaryIntegerOperation were + checked: a sum beyond int64 is an
\* error
executeBinaryIntegerOperation_checked(m, op, left, right) ==
  LET lval == Value64(left)
      rval == Value64(right)
  IN CASE op = OpAdd ->
            IF /\ Negative64(lval) = Negative64(rval)
               /\ Negative64(Add64(lval, rval)) # Negative64(lval)
              THEN Fail(m, <<"integer overflow">>)
              ELSE push(m, Integer64(Add64(lval, rval)))
       [] op = OpSub -> push(m, Integer64(Sub64(lval, rval)))
       [] op = OpMul -> push(m, Integer64(Mul64(lval, rval)))
       [] op = OpDiv -> IF rval = ToInt64(0)
                          THEN Fail(m, <<"division by zero">>)
                          ELSE push(m, Integer64(Quo64(lval, rval)))
       [] OTHER -> Fail(m, <<"invalid integer operation:", op>>)

\* vm.executeBinaryIntegerOperation(op, left, right): on Short operands in
\* numbers, on others in the bytes of int64
executeBinaryIntegerOperation(m, op, left, right) ==
  LET lval == Value64(left)
      rval == Value64(right)
  IN IF Short(left) /\ Short(right)
       THEN CASE op = OpAdd -> push(m, Integer(left.Value + right.Value))
              [] op = OpSub -> push(m, Integer(left.Value - right.Value))
              [] op = OpMul -> push(m, Integer(left.Value * right.Value))
              [] op = OpDiv -> IF right.Value = 0
                                 THEN Fail(m, <<"division by zero">>)
                                 ELSE push(m, Integer(Quo(left.Value, right.Value)))
              [] OTHER -> Fail(m, <<"invalid integer operation:", op>>)
     ELSE CASE op = OpAdd -> push(m, Integer64(Add64(lval, rval)))
            [] op = OpSub -> push(m, Integer64(Sub64(lval, rval)))
            [] op = OpMul -> push(m, Integer64(Mul64(lval, rval)))
            [] op = OpDiv -> IF rval = ToInt64(0)
                               THEN Fail(m, <<"division by zero">>)
                               ELSE push(m, Integer64(Quo64(lval, rval)))
            [] OTHER -> Fail(m, <<"invalid integer operation:", op>>)

\* executeBinaryStringOperation without the test of op: every operation on
\* two strings concatenates them
executeBinaryStringOperation_anyop(m, op, left, right) ==
  push([m EXCEPT !.nextRef = m.nextRef + 1],
       String(left.Value \o right.Value, <<"vm", m.nextRef>>))

\* vm.executeBinaryStringOperation(op, left, right)
executeBinaryStringOperation(m, op, left, right) ==
  IF op # OpAdd
    THEN Fail(m, <<"invalid string operation:", op>>)
    ELSE push([m EXCEPT !.nextRef = m.nextRef + 1],
              String(left.Value \o right.Value, <<"vm", m.nextRef>>))

\* executeBinaryOperation with the two pops bound the other way round:
\* the first object popped taken as the left operand
executeBinaryOperation_swapped(m, op) ==
  LET r == pop(m)
      l == pop(r.vm)
      left == r.ob
      right == l.ob
      m2 == l.vm
  IN IF r.vm.panic # NoPanic THEN r.vm
     ELSE IF m2.panic # NoPanic THEN m2
     ELSE IF left = nil \/ right = nil THEN Panic(m2, NilDereference)
     ELSE IF Type(left) = INTEGER_OBJ /\ Type(right) = INTEGER_OBJ
       THEN executeBinaryIntegerOperation(m2, op, left, right)
     ELSE IF Type(left) = STRING_OBJ /\ Type(right) = STRING_OBJ
       THEN executeBinaryStringOperation(m2, op, left, right)
     ELSE Fail(m2, <<"invalid types for binary operation:", Type(left), Type(right)>>)

\* vm.executeBinaryOperation(op)
executeBinaryOperation(m, op) ==
  LET r == pop(m)
      l == pop(r.vm)
      right == r.ob
      left == l.ob
      m2 == l.vm
  IN IF r.vm.panic # NoPanic THEN r.vm
     ELSE IF m2.panic # NoPanic THEN m2
     ELSE IF left = nil \/ right = nil THEN Panic(m2, NilDereference)
     ELSE IF Type(left) = INTEGER_OBJ /\ Type(right) = INTEGER_OBJ
       THEN executeBinaryIntegerOperation(m2, op, left, right)
     ELSE IF Type(left) = STRING_OBJ /\ Type(right) = STRING_OBJ
       THEN executeBinaryStringOperation(m2, op, left, right)
     ELSE Fail(m2, <<"invalid types for binary operation:", Type(left), Type(right)>>)

\* executeBangOperator without the case for Null
executeBangOperator_nonull(m) ==
  LET p == pop(m)
      operand == p.ob
  IN IF p.vm.panic # NoPanic THEN p.vm
     ELSE CASE operand = True -> push(p.vm, False)
            [] operand = False -> push(p.vm, True)
            [] OTHER -> push(p.vm, False)

\* vm.executeBangOperator()
executeBangOperator(m) ==
  LET p == pop(m)
      operand == p.ob
  IN IF p.vm.panic # NoPanic THEN p.vm
     ELSE CASE operand = True -> push(p.vm, False)
            [] operand = False -> push(p.vm, True)
            [] operand = Null -> push(p.vm, True)
            [] OTHER -> push(p.vm, False)

\* executeMinusOperation that checks the operand's type before taking it
\* off the stack: on a type error sp is where it was
executeMinusOperation_peek(m) ==
  LET p == pop(m)
      operand == p.ob
  IN IF p.vm.panic # NoPanic THEN p.vm
     ELSE IF operand = nil THEN Panic(p.vm, NilDereference)
     ELSE IF Type(operand) # INTEGER_OBJ
       THEN Fail(m, <<"invalid object type for negation:", Type(operand)>>)
     ELSE IF Short(operand) THEN push(p.vm, Integer(-operand.Value))
     ELSE push(p.vm, Integer64(Neg64(Value64(operand))))

\* vm.executeMinusOperation()
executeMinusOperation(m) ==
  LET p == pop(m)
      operand == p.ob
  IN IF p.vm.panic # NoPanic THEN p.vm
     ELSE IF operand = nil THEN Panic(p.vm, NilDereference)
     ELSE IF Type(operand) # INTEGER_OBJ
       THEN Fail(p.vm, <<"invalid object type for negation:", Type(operand)>>)
     ELSE IF Short(operand) THEN push(p.vm, Integer(-operand.Value))
     ELSE push(p.vm, Integer64(Neg64(Value64(operand))))

\* vm.executeIntegerComparison(op, left, right)
executeIntegerComparison(m, op, left, right) ==
  LET leftVal == left.Value
      rightVal == right.Value
  IN CASE op = OpGreaterThan -> push(m, boolNativeToBoolObject(leftVal > rightVal))
       [] op = OpEqual -> push(m, boolNativeToBoolObject(leftVal = rightVal))
       [] op = OpNotEqual -> push(m, boolNativeToBoolObject(leftVal # rightVal))
       [] OTHER -> Fail(m, <<"invalid operator:", op>>)

\* executeComparison that compares what the two objects hold instead of
\* the objects: two strings of the same text, two arrays of the same
\* elements are equal
executeComparison_byvalue(m, op) ==
  LET r == pop(m)
      l == pop(r.vm)
      right == r.ob
      left == l.ob
      m2 == l.vm
      same == /\ Type(left) = Type(right)
              /\ IF Type(left) = STRING_OBJ THEN left.Value = right.Value
                 ELSE IF Type(left) = ARRAY_OBJ THEN left.Elements = right.Elements
                 ELSE IF Type(left) = HASH_OBJ THEN left.Pairs = right.Pairs
                 ELSE left = right
  IN IF r.vm.panic # NoPanic THEN r.vm
     ELSE IF m2.panic # NoPanic THEN m2
     ELSE IF left = nil THEN Panic(m2, NilDereference)
     ELSE IF Type(left) = INTEGER_OBJ /\ right = nil THEN Panic(m2, NilDereference)
     ELSE IF Type(left) = INTEGER_OBJ /\ Type(right) = INTEGER_OBJ
       THEN executeIntegerComparison(m2, op, left, right)
     ELSE CASE op = OpEqual -> push(m2, boolNativeToBoolObject(same))
            [] op = OpNotEqual -> push(m2, boolNativeToBoolObject(~same))
            [] OTHER ->
                 IF right = nil THEN Panic(m2, NilDereference)
                 ELSE Fail(m2, <<"invalid operator:", op, Type(left), Type(right)>>)

\* vm.executeComparison(op); right == left compares the two interface
\* values: the same object, or both nil
executeComparison(m, op) ==
  LET r == pop(m)
      l == pop(r.vm)
      right == r.ob
      left == l.ob
      m2 == l.vm
  IN IF r.vm.panic # NoPanic THEN r.vm
     ELSE IF m2.panic # NoPanic THEN m2
     ELSE IF left = nil THEN Panic(m2, NilDereference)
     ELSE IF Type(left) = INTEGER_OBJ /\ right = nil THEN Panic(m2, NilDereference)
     ELSE IF Type(left) = INTEGER_OBJ /\ Type(right) = INTEGER_OBJ
       THEN executeIntegerComparison(m2, op, left, right)
     ELSE CASE op = OpEqual -> push(m2, boolNativeToBoolObject(right = left))
            [] op = OpNotEqual -> push(m2, boolNativeToBoolObject(right # left))
            [] OTHER ->
                 IF right = nil THEN Panic(m2, NilDereference)
                 ELSE Fail(m2, <<"invalid operator:", op, Type(left), Type(right)>>)

\* key.(object.Hashable): Integer, Boolean and String implement HashKey()
Hashable(ob) == ob # nil /\ Type(ob) \in {INTEGER_OBJ, BOOLEAN_OBJ, STRING_OBJ}

\* ob.HashKey(): the kind and the content of the object
HashKey(ob) == <<Type(ob), ob.Value>>

RECURSIVE buildHashLoop_firstwins(_, _, _, _)
\* the loop of buildHash keeping the pair a key already has
buildHashLoop_firstwins(m, i, endIndex, pairs) ==
  IF i >= endIndex THEN [pairs |-> pairs, err |-> NoErr, panic |-> NoPanic]
  ELSE IF i < 0 \/ i + 1 >= StackSize
    THEN [pairs |-> pairs, err |-> NoErr,
          panic |-> IndexOutOfRange(IF i < 0 THEN i ELSE i + 1)]
  ELSE LET key == At(m.stack, i)
           val == At(m.stack, i + 1)
           pair == [Key |-> key, Value |-> val]
       IN IF key = nil
            THEN [pairs |-> pairs, err |-> NoErr, panic |-> NilDereference]
          ELSE IF ~Hashable(key)
            THEN [pairs |-> pairs, err |-> <<"unusable as hash key:", Type(key)>>,
                  panic |-> NoPanic]
          ELSE buildHashLoop_firstwins(m, i + 2, endIndex,
                 [k \in (DOMAIN pairs) \cup {HashKey(key)} |->
                    IF k \in DOMAIN pairs THEN pairs[k] ELSE pair])

RECURSIVE buildHashLoop(_, _, _, _)
\* the loop of buildHash from index i on; pairs is the map built so far.
\* The result carries the map, the error and the panic of the loop.
buildHashLoop(m, i, endIndex, pairs) ==
  IF i >= endIndex THEN [pairs |-> pairs, err |-> NoErr, panic |-> NoPanic]
  ELSE IF i < 0 \/ i + 1 >= StackSize
    THEN [pairs |-> pairs, err |-> NoErr,
          panic |-> IndexOutOfRange(IF i < 0 THEN i ELSE i + 1)]
  ELSE LET key == At(m.stack, i)
           val == At(m.stack, i + 1)
           pair == [Key |-> key, Value |-> val]
       IN IF key = nil
            THEN [pairs |-> pairs, err |-> NoErr, panic |-> NilDereference]
          ELSE IF ~Hashable(key)
            THEN [pairs |-> pairs, err |-> <<"unusable as hash key:", Type(key)>>,
                  panic |-> NoPanic]
          ELSE buildHashLoop(m, i + 2, endIndex,
                 [k \in (DOMAIN pairs) \cup {HashKey(key)} |->
                    IF k = HashKey(key) THEN pair ELSE pairs[k]])

\* vm.buildHash(startIndex, endIndex): the object, the error, the panic
buildHash(m, startIndex, endIndex) ==
  LET r == buildHashLoop(m, startIndex, endIndex, [k \in {} |-> nil])
  IN [ob |-> IF r.err = NoErr /\ r.panic = NoPanic
               THEN Hash(r.pairs, <<"vm", m.nextRef>>) ELSE nil,
      err |-> r.err,
      panic |-> r.panic]

\* buildArray filling the array from the top of the stack downwards
buildArray_reversed(m, startIndex, endIndex) ==
  IF startIndex < endIndex /\ startIndex < 0
    THEN [ob |-> nil, panic |-> IndexOutOfRange(startIndex)]
    ELSE [ob |-> Array([k \in 1..(endIndex - startIndex) |->
                          At(m.stack, endIndex - k)],
                       <<"vm", m.nextRef>>),
          panic |-> NoPanic]

\* vm.buildArray(startIndex, endIndex): the object and the panic
buildArray(m, startIndex, endIndex) ==
  IF startIndex < endIndex /\ startIndex < 0
    THEN [ob |-> nil, panic |-> IndexOutOfRange(startIndex)]
    ELSE [ob |-> Array([k \in 1..(endIndex - startIndex) |->
                          At(m.stack, startIndex + k - 1)],
                       <<"vm", m.nextRef>>),
          panic |-> NoPanic]

\* vm.instructions[ip+1:]
OperandBytes(m) == SubSeq(m.instructions, m.ip + 2, Len(m.instructions))

\* binary.BigEndian.Uint16 / code.ReadUint16 need two bytes
HasUint16(ins) == Len(ins) >= 2

\* the body of `switch operation` in RunVM: the VM after the handler of the
\* instruction at ip, with err / panic set when the handler failed
Handler(m) ==
  LET operation == m.instructions[m.ip + 1]
      operandBytes == OperandBytes(m)
      operand == ReadUint16(operandBytes)
      m1 == [m EXCEPT !.ip = m.ip + 2]
  IN CASE operation = OpPop -> pop(m).vm
       [] operation = OpConstant ->
            IF ~HasUint16(operandBytes) THEN Panic(m, IndexOutOfRange(1))
            ELSE IF operand >= NumObjects(m.constants)
              THEN Panic(m1, IndexOutOfRange(operand))
            ELSE push(m1, ObjectAt(m.constants, operand))
       [] operation = OpTrue -> push(m, True)
       [] operation = OpFalse -> push(m, False)
       [] operation = OpBang -> executeBangOperator(m)
       [] operation = OpJump ->
            IF ~HasUint16(operandBytes) THEN Panic(m, IndexOutOfRange(1))
            ELSE [m EXCEPT !.ip = operand - 1]
       [] operation = OpJumpNotTruthy ->
            IF ~HasUint16(operandBytes) THEN Panic(m, IndexOutOfRange(1))
            ELSE LET p == pop(m1)
                 IN IF p.vm.panic # NoPanic THEN p.vm
                    ELSE IF ~isTruthy(p.ob)
                      THEN [p.vm EXCEPT !.ip = operand - 1]
                      ELSE p.vm
       [] operation \in {OpAdd, OpSub, OpMul, OpDiv} ->
            executeBinaryOperation(m, operation)
       [] operation = OpMinus -> executeMinusOperation(m)
       [] operation \in {OpEqual, OpNotEqual, OpGreaterThan} ->
            executeComparison(m, operation)
       [] operation = OpSetGlobal ->
            IF ~HasUint16(operandBytes) THEN Panic(m, IndexOutOfRange(1))
            ELSE LET p == pop(m1)
                 IN IF p.vm.panic # NoPanic THEN p.vm
                    ELSE [p.vm EXCEPT !.globals = Put(m.globals, operand, p.ob)]
       [] operation = OpGetGlobal ->
            IF ~HasUint16(operandBytes) THEN Panic(m, IndexOutOfRange(1))
            ELSE push(m1, At(m.globals, operand))
       [] operation = OpNull -> push(m, Null)
       [] operation = OpArray ->
            IF ~HasUint16(operandBytes) THEN Panic(m, IndexOutOfRange(1))
            ELSE LET a == buildArray(m1, m1.sp - operand, m1.sp)
                 IN IF a.panic # NoPanic THEN Panic(m1, a.panic)
                    ELSE push([m1 EXCEPT !.sp = m1.sp - operand,
                                         !.nextRef = m1.nextRef + 1], a.ob)
       [] operation = OpHash ->
            IF ~HasUint16(operandBytes) THEN Panic(m, IndexOutOfRange(1))
            ELSE LET h == buildHash(m1, m1.sp - operand, m1.sp)
                 IN IF h.panic # NoPanic THEN Panic(m1, h.panic)
                    ELSE IF h.err # NoErr THEN Fail(m1, h.err)
                    ELSE push([m1 EXCEPT !.sp = m1.sp - operand,
                                         !.nextRef = m1.nextRef + 1], h.ob)
       [] OTHER -> Fail(m, <<"unknown operation:", operation>>)

\* a loop that drops the handler's error and goes on
ReturnsErr_ignored(r) == FALSE

\* `if err != nil { return err }` after a handler
ReturnsErr(r) == r.err # NoErr

\* one iteration of the loop of RunVM: the handler of the instruction at
\* ip, the return of its error, and ip++
RunVMIteration(m) ==
  LET r == Handler(m)
  IN IF r.panic # NoPanic THEN [r EXCEPT !.status = "panic"]
     ELSE IF ReturnsErr(r) THEN [r EXCEPT !.status = "error"]
     ELSE [r EXCEPT !.ip = r.ip + 1]

\* the loop condition of RunVM
LoopRuns(m) == m.ip < Len(m.instructions)

\* ---------------------------------------------------------------------
\* Inputs: the programs handed to the compiler and the VM
\* ---------------------------------------------------------------------
Ints == 0..MaxInt
IntLits == {IntegerLiteral(n) : n \in Ints}
BoolLits == {Boolean(TRUE), Boolean(FALSE)}
Atoms == IntLits \cup BoolLits \cup {StringLiteral("foo")}
ArithOps == {"+", "-", "*", "/"}
InfixOps == ArithOps \cup {"<", ">", "==", "!="}

\* -a, !a
Unary == {PrefixExpression(o, a) : o \in {"-", "!"}, a \in Atoms}
\* a o b
Binary == {InfixExpression(l, o, r) : l \in Atoms, o \in InfixOps, r \in Atoms}
\* (a o b) o c and a o (b o c) over integer literals
Nested ==
  {InfixExpression(InfixExpression(a, o1, b), o2, c) :
     a \in IntLits, b \in IntLits, c \in IntLits, o1 \in ArithOps, o2 \in ArithOps}
  \cup
  {InfixExpression(a, o1, InfixExpression(b, o2, c)) :
     a \in IntLits, b \in IntLits, c \in IntLits, o1 \in ArithOps, o2 \in ArithOps}

Lit(n) == IntegerLiteral(n)
Bin(l, o, r) == InfixExpression(l, o, r)
Neg(e) == PrefixExpression("-", e)

\* the inputs of TestIntegerArithmetic and of the scenarios of the
\* documentation
Examples ==
  { Bin(Lit(1), "-", Lit(2)),
    Bin(Lit(4), "/", Lit(2)),
    \* 50 / 2 * 2 + 10 - 5
    Bin(Bin(Bin(Bin(Lit(50), "/", Lit(2)), "*", Lit(2)), "+", Lit(10)), "-", Lit(5)),
    \* 5 * (2 + 10)
    Bin(Lit(5), "*", Bin(Lit(2), "+", Lit(10))),
    \* 5 + 5 + 5 + 5 - 10
    Bin(Bin(Bin(Bin(Lit(5), "+", Lit(5)), "+", Lit(5)), "+", Lit(5)), "-", Lit(10)),
    \* 2 * 2 * 2 * 2 * 2
    Bin(Bin(Bin(Bin(Lit(2), "*", Lit(2)), "*", Lit(2)), "*", Lit(2)), "*", Lit(2)),
    \* 5 + 2 * 10
    Bin(Lit(5), "+", Bin(Lit(2), "*", Lit(10))),
    \* (1 - 8) / 2 and 7 / (1 - 3): quotients of negative operands
    Bin(Bin(Lit(1), "-", Lit(8)), "/", Lit(2)),
    Bin(Lit(7), "/", Bin(Lit(1), "-", Lit(3))),
    \* -50 + 100 + -50
    Bin(Bin(Neg(Lit(50)), "+", Lit(100)), "+", Neg(Lit(50))),
    \* "foo" + "bar"
    Bin(StringLiteral("foo"), "+", StringLiteral("bar")),
    \* 1 + "x"
    Bin(Lit(1), "+", StringLiteral("x")),
    \* [1, 2, 3][1 + 1]
    IndexExpression(ArrayLiteral(<<Lit(1), Lit(2), Lit(3)>>), Bin(Lit(1), "+", Lit(1))),
    \* [1, 2, 3][-1]
    IndexExpression(ArrayLiteral(<<Lit(1), Lit(2), Lit(3)>>), Neg(Lit(1))),
    \* [1, 2, 3]
    ArrayLiteral(<<Lit(1), Lit(2), Lit(3)>>),
    \* {1: 2}[1]
    IndexExpression(HashLiteral(<<<<Lit(1), Lit(2)>>>>), Lit(1)) }

Stmt(e) == ExpressionStatement(e)
Block1(e) == BlockStatement(<<Stmt(e)>>)

\* conditions of the generated if-expressions
Conds ==
  { Boolean(TRUE), Boolean(FALSE), Lit(0), Lit(1),
    Bin(Lit(1), "<", Lit(2)), Bin(Lit(1), ">", Lit(2)),
    PrefixExpression("!", Lit(0)), StringLiteral("foo"),
    \* if (false) { 10 }: a condition that is Null
    IfExpression(Boolean(FALSE), Block1(Lit(10)), nilNode) }

\* block shapes of the generated if-expressions
Blocks ==
  { Block1(Lit(10)), Block1(Lit(20)),
    BlockStatement(<< >>),
    BlockStatement(<<LetStatement("a", Lit(1))>>),
    BlockStatement(<<Stmt(Lit(1)), Stmt(Lit(2))>>),
    BlockStatement(<<LetStatement("a", Lit(1)), Stmt(Identifier("a"))>>),
    Block1(Identifier("a")),
    Block1(StringLiteral("foo")),
    Block1(Bin(Lit(1), "+", Lit(2))),
    Block1(IfExpression(Boolean(TRUE), Block1(Lit(1)), nilNode)),
    Block1(IfExpression(Boolean(FALSE), Block1(Lit(1)), nilNode)),
    Block1(IfExpression(Boolean(FALSE), Block1(Lit(1)), BlockStatement(<< >>))) }

Ifs == {IfExpression(c, a, b) : c \in Conds, a \in Blocks, b \in Blocks \cup {nilNode}}

Exprs == Atoms \cup Unary \cup Binary \cup Nested \cup Examples \cup Ifs

\* a program made of a single expression statement
Single(e) == RootStatement(<<Stmt(e)>>)

\* programs of several statements
Sequences3 ==
  { \* let one = 1; let two = one + one; one + two
    RootStatement(<<LetStatement("one", Lit(1)),
                    LetStatement("two", Bin(Identifier("one"), "+", Identifier("one"))),
                    Stmt(Bin(Identifier("one"), "+", Identifier("two")))>>),
    RootStatement(<<Stmt(Lit(1)), Stmt(Lit(2))>>),
    RootStatement(<<LetStatement("a", Lit(1))>>),
    RootStatement(<< >>) }

Programs == {Single(e) : e \in Exprs} \cup Sequences3

\* ---------------------------------------------------------------------
\* evaluator/builtins.go: the tree-walking evaluator, for programs made of
\* let statements, expression statements, calls of built-ins, identifiers,
\* integer, string, boolean and array literals.
\* An *object.Array is [type, ref]: ref is its place in the heap, which
\* holds the Elements slice of every array allocated.  The environment is
\* the function from the names set to their values.
\* ---------------------------------------------------------------------
ERROR_OBJ == "ERROR"
BUILTIN_OBJ == "BUILTIN"

\* var ( NULL = &object.Null{}; TRUE = ...; FALSE = ... ) of package
\* evaluator: three objects of their own, which are not the True, False
\* and Null of package vm; ref tells the two allocations apart
NULL == [type |-> NULL_OBJ, ref |-> <<"evaluator", "NULL">>]
TRUE_ == [type |-> BOOLEAN_OBJ, Value |-> TRUE, ref |-> <<"evaluator", "TRUE">>]
FALSE_ == [type |-> BOOLEAN_OBJ, Value |-> FALSE, ref |-> <<"evaluator", "FALSE">>]

\* createError(format, args...): the message is kept as its parts, the
\* text of the format and the arguments in the order they are printed
createError(msg) == [type |-> ERROR_OBJ, Message |-> msg]

isError(ob) == ob # nil /\ ob.type = ERROR_OBJ

\* object.NewEnvironment()
NewEnvironment == [n \in {} |-> nil]

\* env.Set(name, value)
EnvSet(e, name, value) ==
  [n \in (DOMAIN e) \cup {name} |-> IF n = name THEN value ELSE e[n]]

\* &object.Array{Elements: es}: the array and the heap that holds it
NewArray(es, hp) ==
  [v |-> [type |-> ARRAY_OBJ, ref |-> Len(hp) + 1], heap |-> Append(hp, es)]

BuiltInNames == {"puts", "len", "first", "last", "rest", "push"}

\* a push that appends to the slice of its argument and returns the argument
builtInPush_inplace(args, hp) ==
  IF Len(args) # 2
    THEN [v |-> createError(<<"wrong number of arguments. got=", Len(args), "want=", 2>>),
          heap |-> hp]
  ELSE IF args[1].type # ARRAY_OBJ
    THEN [v |-> createError(<<"argument to", "push", "must be ARRAY, got", args[1].type>>),
          heap |-> hp]
  ELSE [v |-> args[1],
        heap |-> [hp EXCEPT ![args[1].ref] = Append(@, args[2])]]

\* builtIns["push"].Func(args...)
builtInPush(args, hp) ==
  IF Len(args) # 2
    THEN [v |-> createError(<<"wrong number of arguments. got=", Len(args), "want=", 2>>),
          heap |-> hp]
  ELSE IF args[1].type # ARRAY_OBJ
    THEN [v |-> createError(<<"argument to", "push", "must be ARRAY, got", args[1].type>>),
          heap |-> hp]
  ELSE LET array == hp[args[1].ref]
           length == Len(array)
           copied == [i \in 1..(length + 1) |->
                        IF i <= length THEN array[i] ELSE args[2]]
       IN NewArray(copied, hp)

\* builtIns[name].Func(args...): the object returned and the heap after
builtIns(name, args, hp) ==
  CASE name = "puts" -> [v |-> NULL, heap |-> hp]
    [] name = "len" ->
         [v |-> IF Len(args) # 1
                  THEN createError(<<"wrong number of arguments. got=", Len(args), "want=", 1>>)
                ELSE IF args[1].type = ARRAY_OBJ THEN Integer(Len(hp[args[1].ref]))
                ELSE IF args[1].type = STRING_OBJ THEN Integer(Len(args[1].Value))
                ELSE createError(<<"argument to", "len", "not supported, got", args[1].type>>),
          heap |-> hp]
    [] name \in {"first", "last"} ->
         [v |-> IF Len(args) # 1
                  THEN createError(<<"wrong number of arguments. got=", Len(args), "want=", 1>>)
                ELSE IF args[1].type # ARRAY_OBJ
                  THEN createError(<<"argument to", name, "must be ARRAY, got", args[1].type>>)
                ELSE LET array == hp[args[1].ref]
                     IN IF Len(array) > 0
                          THEN array[IF name = "first" THEN 1 ELSE Len(array)]
                          ELSE NULL,
          heap |-> hp]
    [] name = "rest" ->
         IF Len(args) # 1
           THEN [v |-> createError(<<"wrong number of arguments. got=", Len(args), "want=", 1>>),
                 heap |-> hp]
         ELSE IF args[1].type # ARRAY_OBJ
           THEN [v |-> createError(<<"argument to", "rest", "must be ARRAY, got", args[1].type>>),
                 heap |-> hp]
         ELSE LET array == hp[args[1].ref]
              IN IF Len(array) > 0
                   THEN NewArray(SubSeq(array, 2, Len(array)), hp)
                   ELSE [v |-> NULL, heap |-> hp]
    [] name = "push" -> builtInPush(args, hp)

\* evalIdentifier(id, env)
evalIdentifier(name, e) ==
  IF name \in BuiltInNames THEN [type |-> BUILTIN_OBJ, name |-> name]
  ELSE IF name \in DOMAIN e THEN e[name]
  ELSE createError(<<"Identifier '", name, "' not found">>)

\* applyFunction(fun, args)
applyFunction(fun, args, hp) ==
  IF fun.type = BUILTIN_OBJ THEN builtIns(fun.name, args, hp)
  ELSE [v |-> createError(<<"unknown function:", fun.type>>), heap |-> hp]

\* a Go run-time panic raised inside the evaluator, held in the place of
\* the object returned: it ends every call under way
evalPanic(why) == [type |-> "PANIC", why |-> why]
inPanic(ob) == ob # nil /\ ob.type = "PANIC"
\* the call returns at once: isError(ob), or a panic is unwinding
stops(ob) == isError(ob) \/ inPanic(ob)

\* evalBangOperatorExpression(right)
evalBangOperatorExpression(right) ==
  CASE right = FALSE_ -> TRUE_
    [] right = TRUE_ -> FALSE_
    [] right = NULL -> TRUE_
    [] OTHER -> FALSE_

\* evalPrefixNegationExpression(right)
evalPrefixNegationExpression(right) ==
  IF right = nil THEN evalPanic(NilDereference)
  ELSE IF right.type # INTEGER_OBJ
    THEN createError(<<"unknown operator: -", right.type>>)
  ELSE Integer(-right.Value)

\* evalPrefixExpression(operator, right)
evalPrefixExpression(operator, right) ==
  CASE operator = "!" -> evalBangOperatorExpression(right)
    [] operator = "-" -> evalPrefixNegationExpression(right)
    [] OTHER -> IF right = nil THEN evalPanic(NilDereference)
                ELSE createError(<<"unknown operator:", operator, right.type>>)

\* evalIntegerInfixExpression(operator, lt, rt); ltVal / rtVal with
\* rtVal = 0 is Go's panic "integer divide by zero"
evalIntegerInfixExpression(operator, lt, rt) ==
  LET ltVal == lt.Value
      rtVal == rt.Value
  IN CASE operator = "+" -> Integer(ltVal + rtVal)
       [] operator = "-" -> Integer(ltVal - rtVal)
       [] operator = "*" -> Integer(ltVal * rtVal)
       [] operator = "/" -> IF rtVal = 0 THEN evalPanic(<<"integer divide by zero">>)
                            ELSE Integer(Quo(ltVal, rtVal))
       [] operator = "<" -> IF ltVal < rtVal THEN TRUE_ ELSE FALSE_
       [] operator = ">" -> IF ltVal > rtVal THEN TRUE_ ELSE FALSE_
       [] operator = "==" -> IF ltVal = rtVal THEN TRUE_ ELSE FALSE_
       [] operator = "!=" -> IF ltVal # rtVal THEN TRUE_ ELSE FALSE_
       [] OTHER -> createError(<<"unknown operator:", lt.type, operator, rt.type>>)

\* evalStringInfixExpression(operator, lt, rt)
evalStringInfixExpression(operator, lt, rt) ==
  CASE operator = "==" -> IF lt.Value = rt.Value THEN TRUE_ ELSE FALSE_
    [] operator = "+" -> [type |-> STRING_OBJ, Value |-> lt.Value \o rt.Value]
    [] operator = "!=" -> IF lt.Value # rt.Value THEN TRUE_ ELSE FALSE_
    [] OTHER -> createError(<<"unknown operator:", lt.type, operator, rt.type>>)

\* evalInfixExpression(operator, left, right): the cases of the switch in
\* their order; x.Type() of a nil x is a panic
evalInfixExpression(operator, left, right) ==
  IF left = nil THEN evalPanic(NilDereference)
  ELSE IF left.type = INTEGER_OBJ /\ right = nil THEN evalPanic(NilDereference)
  ELSE IF left.type = INTEGER_OBJ /\ right.type = INTEGER_OBJ
    THEN evalIntegerInfixExpression(operator, left, right)
  ELSE IF operator = "==" THEN (IF left = right THEN TRUE_ ELSE FALSE_)
  ELSE IF operator = "!=" THEN (IF left # right THEN TRUE_ ELSE FALSE_)
  ELSE IF left.type = STRING_OBJ /\ right = nil THEN evalPanic(NilDereference)
  ELSE IF left.type = STRING_OBJ /\ right.type = STRING_OBJ
    THEN evalStringInfixExpression(operator, left, right)
  ELSE IF right = nil THEN evalPanic(NilDereference)
  ELSE IF left.type # right.type
    THEN createError(<<"type mismatch:", left.type, operator, right.type>>)
  ELSE createError(<<"unknown operator:", left.type, operator, right.type>>)

\* isTruthy(ob) of package evaluator
evalIsTruthy(ob) ==
  CASE ob = NULL -> FALSE
    [] ob = TRUE_ -> TRUE
    [] ob = FALSE_ -> FALSE
    [] OTHER -> TRUE

RECURSIVE Evaluate(_, _, _)
RECURSIVE evalListExpression(_, _, _, _, _)
RECURSIVE evalStatements(_, _, _, _, _)
\* the loop of evalRootStatement and of evalBlockStatement from statement
\* i on, result being the value of the statement before: an Error result
\* is returned at once
evalStatements(stmts, i, result, e, hp) ==
  IF i > Len(stmts) THEN [v |-> result, env |-> e, heap |-> hp]
  ELSE LET r == Evaluate(stmts[i], e, hp)
       IN IF stops(r.v) THEN r
          ELSE evalStatements(stmts, i + 1, r.v, r.env, r.heap)

\* evalListExpression(args, env): the loop from args[i] on, result being
\* the values collected so far
evalListExpression(args, i, result, e, hp) ==
  IF i > Len(args) THEN [vs |-> result, env |-> e, heap |-> hp]
  ELSE LET r == Evaluate(args[i], e, hp)
       IN IF stops(r.v) THEN [vs |-> <<r.v>>, env |-> r.env, heap |-> r.heap]
          ELSE evalListExpression(args, i + 1, Append(result, r.v), r.env, r.heap)

\* Evaluate(node, env): the object returned, the environment and the heap
\* after the call
Evaluate(node, e, hp) ==
  CASE node.kind = "LetStatement" ->
         LET r == Evaluate(node.Value, e, hp)
         IN IF stops(r.v) THEN r
            ELSE [v |-> nil, env |-> EnvSet(r.env, node.Name, r.v), heap |-> r.heap]
    [] node.kind = "ExpressionStatement" -> Evaluate(node.Expression, e, hp)
    [] node.kind = "CallExpression" ->
         LET fn == Evaluate(node.Function, e, hp)
         IN IF stops(fn.v) THEN fn
            ELSE LET args == evalListExpression(node.Arguments, 1, << >>, fn.env, fn.heap)
                 IN IF Len(args.vs) = 1 /\ stops(args.vs[1])
                      THEN [v |-> args.vs[1], env |-> args.env, heap |-> args.heap]
                      ELSE LET r == applyFunction(fn.v, args.vs, args.heap)
                           IN [v |-> r.v, env |-> args.env, heap |-> r.heap]
    [] node.kind = "Identifier" ->
         [v |-> evalIdentifier(node.Value, e), env |-> e, heap |-> hp]
    [] node.kind = "IntegerLiteral" -> [v |-> Integer(node.Value), env |-> e, heap |-> hp]
    [] node.kind = "StringLiteral" ->
         [v |-> [type |-> STRING_OBJ, Value |-> node.Value], env |-> e, heap |-> hp]
    [] node.kind = "Boolean" ->
         \* boolNativeToBoolObject of package evaluator
         [v |-> IF node.Value THEN TRUE_ ELSE FALSE_, env |-> e, heap |-> hp]
    [] node.kind = "ArrayLiteral" ->
         LET values == evalListExpression(node.Elements, 1, << >>, e, hp)
         IN IF Len(values.vs) = 1 /\ stops(values.vs[1])
              THEN [v |-> values.vs[1], env |-> values.env, heap |-> values.heap]
              ELSE LET a == NewArray(values.vs, values.heap)
                   IN [v |-> a.v, env |-> values.env, heap |-> a.heap]
    [] node.kind = "RootStatement" -> evalStatements(node.Statements, 1, nil, e, hp)
    [] node.kind = "BlockStatement" -> evalStatements(node.Statements, 1, nil, e, hp)
    [] node.kind = "PrefixExpression" ->
         LET right == Evaluate(node.Right, e, hp)
         IN IF stops(right.v) THEN right
            ELSE [right EXCEPT !.v = evalPrefixExpression(node.Operator, right.v)]
    [] node.kind = "InfixExpression" ->
         LET lt == Evaluate(node.Left, e, hp)
         IN IF stops(lt.v) THEN lt
            ELSE LET rt == Evaluate(node.Right, lt.env, lt.heap)
                 IN IF stops(rt.v) THEN rt
                    ELSE [rt EXCEPT !.v = evalInfixExpression(node.Operator, lt.v, rt.v)]
    [] node.kind = "IfExpression" ->
         \* evalConditionalExpression(node, env)
         LET condition == Evaluate(node.Condition, e, hp)
         IN IF stops(condition.v) THEN condition
            ELSE IF evalIsTruthy(condition.v)
              THEN Evaluate(node.Consequence, condition.env, condition.heap)
            ELSE IF node.Alternative # nilNode
              THEN Evaluate(node.Alternative, condition.env, condition.heap)
            ELSE [condition EXCEPT !.v = NULL]
    [] OTHER -> [v |-> nil, env |-> e, heap |-> hp]

\* ---------------------------------------------------------------------
\* State
\*   pc          : where the driver is: "prompt" (repl.Start waits for a
\*                 line), "test" (runVmTests is about to compile prog),
\*                 "run" (RunVM is executing or has returned), "fatal"
\*                 (t.Fatalf on a compile error), "crashed" (a panic)
\*   prog        : the AST of the line / test input being processed
\*   cmp         : the compiler object of the last Compile
\*   symbolTable, constants, globals : the session state of repl.Start
\*   vm          : the VM object of the last run
\*   output      : what repl.Start printed last
\*   nlines      : lines read so far
\*   defLog      : history: the names passed to Define on the session's
\*                 symbol table, in order (the name of global index i is
\*                 NameOf(i))
\*   lastStored  : history: for every name, the object most recently
\*                 stored by an executed OpSetGlobal of that name
\*   evalEnv, heap : the environment handed to evaluator.Evaluate and the
\*                 arrays the evaluator has allocated
\* ---------------------------------------------------------------------
VARIABLES pc, prog, cmp, symbolTable, constants, globals, vm, output, nlines,
          defLog, lastStored, evalEnv, heap

vars == <<pc, prog, cmp, symbolTable, constants, globals, vm, output, nlines,
          defLog, lastStored, evalEnv, heap>>

\* no VM has been created yet
noVM == [NewVM(ByteCode(NewCompiler)) EXCEPT !.status = "none"]
noOutput == [kind |-> "none"]

\* ---------------------------------------------------------------------
\* RunVM, one loop iteration per step
\* ---------------------------------------------------------------------
\* the name whose OpSetGlobal / OpGetGlobal carries operand idx
NameOf(idx) == IF idx < NumObjects(defLog) THEN ObjectAt(defLog, idx) ELSE ""

\* log with the name appended (the log is held as runs of equal names)
AppendName(log, name) ==
  IF Len(log) > 0 /\ log[Len(log)].ob = name
    THEN [log EXCEPT ![Len(log)].n = log[Len(log)].n + 1]
    ELSE Append(log, [ob |-> name, n |-> 1])

RECURSIVE AppendNamesFrom(_, _, _)
AppendNamesFrom(log, names, k) ==
  IF k = 0 THEN log ELSE AppendName(AppendNamesFrom(log, names, k - 1), names[k])
\* log with the names appended in order
AppendNames(log, names) == AppendNamesFrom(log, names, Len(names))

\* the instruction RunVM is about to execute
CurrentOp == vm.instructions[vm.ip + 1]
CurrentOperand == ReadUint16(OperandBytes(vm))

\* one iteration of `for ip := 0; ip < len(vm.instructions); ip++`
Step ==
  /\ pc = "run"
  /\ vm.status = "running"
  /\ LoopRuns(vm)
  /\ vm' = RunVMIteration(vm)
  /\ globals' = IF vm.sharedGlobals THEN vm'.globals ELSE globals
  /\ lastStored' =
       IF CurrentOp = OpSetGlobal /\ vm'.status = "running"
            /\ NameOf(CurrentOperand) # ""
         THEN [n \in (DOMAIN lastStored) \cup {NameOf(CurrentOperand)} |->
                 IF n = NameOf(CurrentOperand)
                   THEN At(vm'.globals, CurrentOperand)
                   ELSE lastStored[n]]
         ELSE lastStored
  /\ pc' = IF vm'.status = "panic" THEN "crashed" ELSE pc
  /\ UNCHANGED <<evalEnv, heap, prog, cmp, symbolTable, constants, output, nlines, defLog>>

\* the loop condition fails: `return nil`
Return ==
  /\ pc = "run"
  /\ vm.status = "running"
  /\ ~LoopRuns(vm)
  /\ vm' = [vm EXCEPT !.status = "done"]
  /\ UNCHANGED <<evalEnv, heap, pc, prog, cmp, symbolTable, constants, globals, output, nlines,
                 defLog, lastStored>>

\* ---------------------------------------------------------------------
\* runVmTests: one test input, compiled by a new compiler and run by a
\* new VM
\* ---------------------------------------------------------------------
InitTest ==
  /\ evalEnv = NewEnvironment
  /\ heap = << >>
  /\ pc = "test"
  /\ prog \in Programs
  /\ cmp = NewCompiler
  /\ symbolTable = NewSymbolTable
  /\ constants = NoObjects
  /\ globals = emptySlice
  /\ vm = noVM
  /\ output = noOutput
  /\ nlines = 0
  /\ defLog = << >>
  /\ lastStored = << >>

\* comp := compiler.NewCompiler(); err := comp.Compile(program);
\* vm := NewVM(comp.ByteCode())
RunTest ==
  /\ pc = "test"
  /\ LET c == Compile(prog, NewCompiler)
     IN /\ cmp' = c
        /\ symbolTable' = c.symbolTable
        /\ defLog' = AppendNames(defLog, c.newDefs)
        /\ IF c.err # NoErr
             THEN pc' = "fatal" /\ vm' = vm
             ELSE pc' = "run" /\ vm' = NewVM(ByteCode(c))
  /\ UNCHANGED <<evalEnv, heap, prog, constants, globals, output, nlines, lastStored>>

NextTest == RunTest \/ Step \/ Return

SpecTest == InitTest /\ [][NextTest]_vars

\* ---------------------------------------------------------------------
\* repl.Start: one session; the symbol table, the constants and the
\* globals live across the lines
\* ---------------------------------------------------------------------
\* a line the parser rejects (len(psr.Errors()) != 0)
parseErrorLine == [kind |-> "ParseError"]

Line(ss) == RootStatement(ss)

\* the lines typed in a session
ReplLines ==
  { Line(<<LetStatement("a", Lit(1))>>),
    Line(<<LetStatement("a", Lit(2))>>),
    Line(<<LetStatement("b", Identifier("a"))>>),
    Line(<<Stmt(Identifier("a"))>>),
    Line(<<Stmt(Identifier("b"))>>),
    Line(<<Stmt(Bin(Identifier("a"), "+", Lit(1)))>>),
    \* let a = 2; let c = zz;   (does not compile: zz is undefined)
    Line(<<LetStatement("a", Lit(2)), LetStatement("c", Identifier("zz"))>>),
    \* let a = 1 / 0;           (aborts at run time)
    Line(<<LetStatement("a", Bin(Lit(1), "/", Lit(0)))>>),
    \* let b = 2; true + 1      (aborts at run time after the let)
    Line(<<LetStatement("b", Lit(2)), Stmt(Bin(Boolean(TRUE), "+", Lit(1)))>>),
    \* let a = 1; a             (reads back in the same line)
    Line(<<LetStatement("a", Lit(1)), Stmt(Identifier("a"))>>),
    \* let c = c;               (c is read before it is defined)
    Line(<<LetStatement("c", Identifier("c"))>>),
    \* let c = [zz];            (zz is undefined)
    Line(<<LetStatement("c", ArrayLiteral(<<Identifier("zz")>>))>>),
    Line(<<Stmt(Lit(1))>>),
    Line(<<Stmt(Lit(2))>>),
    Line(<< >>),
    parseErrorLine }

InitRepl ==
  /\ evalEnv = NewEnvironment
  /\ heap = << >>
  /\ pc = "prompt"
  /\ prog = nilNode
  /\ cmp = NewCompiler
  /\ symbolTable = NewSymbolTable
  /\ constants = NoObjects
  /\ globals = emptySlice
  /\ vm = noVM
  /\ output = noOutput
  /\ nlines = 0
  /\ defLog = << >>
  /\ lastStored = << >>

\* one pass of the loop of Start up to the call of RunVM: scan a line,
\* parse it, compile it with NewWithState, create the VM with
\* NewVMWithGlobalsStore
ReadLine(Lines, limit) ==
  /\ pc = "prompt"
  /\ nlines < limit
  /\ \E root \in Lines :
       /\ prog' = root
       /\ nlines' = nlines + 1
       /\ IF root = parseErrorLine
            THEN /\ output' = [kind |-> "Parser ERROR::"]
                 /\ UNCHANGED <<pc, cmp, symbolTable, constants, vm, defLog>>
            ELSE LET c == Compile(root, NewWithState(symbolTable, constants))
                 IN /\ cmp' = c
                    /\ symbolTable' = c.symbolTable
                    /\ defLog' = AppendNames(defLog, c.newDefs)
                    /\ IF c.err # NoErr
                         THEN /\ output' = [kind |-> "Compilation failed:", err |-> c.err]
                              /\ UNCHANGED <<pc, constants, vm>>
                         ELSE /\ constants' = ByteCode(c).Constants
                              /\ vm' = NewVMWithGlobalsStore(ByteCode(c), globals)
                              /\ pc' = "run"
                              /\ output' = output
  /\ UNCHANGED <<evalEnv, heap, globals, lastStored>>

\* the rest of the pass, after RunVM has returned: report the error, or
\* write stackTop.Inspect() of the last popped element (a nil stackTop
\* makes the call panic)
Report ==
  /\ pc = "run"
  /\ vm.status \in {"done", "error"}
  /\ IF vm.status = "error"
       THEN /\ output' = [kind |-> "Executing bytecode failed:", err |-> vm.err]
            /\ pc' = "prompt"
       ELSE IF vm.sp >= StackSize
         THEN /\ output' = [kind |-> "panic", panic |-> IndexOutOfRange(vm.sp)]
              /\ pc' = "crashed"
       ELSE IF LastPoppedStackElement(vm) = nil
         THEN /\ output' = [kind |-> "panic", panic |-> NilDereference]
              /\ pc' = "crashed"
       ELSE /\ output' = [kind |-> "value", stackTop |-> LastPoppedStackElement(vm)]
            /\ pc' = "prompt"
  /\ UNCHANGED <<evalEnv, heap, prog, cmp, symbolTable, constants, globals, vm, nlines,
                 defLog, lastStored>>

\* scanner.Scan() reports the end of the input: Start returns
EndOfInput ==
  /\ pc = "prompt"
  /\ pc' = "exited"
  /\ UNCHANGED <<evalEnv, heap, prog, cmp, symbolTable, constants, globals, vm, output, nlines,
                 defLog, lastStored>>

Next == ReadLine(ReplLines, MaxLines) \/ Step \/ Return \/ Report \/ EndOfInput

Spec == InitRepl /\ [][Next]_vars

\* ---------------------------------------------------------------------
\* A long session: the state of repl.Start after PriorLines lines `1`
\* (each line appends Integer(1) to the constants, prints 1 and leaves
\* the symbol table and the globals empty), and the lines typed next
\* ---------------------------------------------------------------------
PriorLines == 65536
\* lines read after the first PriorLines
MaxLongLines == 2

LongLines ==
  { Line(<<Stmt(Lit(2))>>),
    Line(<<Stmt(Bin(Lit(2), "+", Lit(0)))>>),
    Line(<<LetStatement("a", Lit(1))>>),
    Line(<<LetStatement("a", Lit(2))>>),
    Line(<<LetStatement("a", Lit(2)), Stmt(Identifier("a"))>>),
    Line(<<Stmt(Identifier("a"))>>),
    Line(<<Stmt(Identifier("b"))>>),
    Line(<<Stmt(Boolean(TRUE))>>) }

\* the constants after n lines `1`
OnesPool(n) == Repeat(Integer(1), n)

\* the compiler and the VM of the n-th line `1`, n >= 1
OnesCompiler(n) == Compile(Single(Lit(1)), NewWithState(NewSymbolTable, OnesPool(n - 1)))
\* (c is the compiler of the line)
OnesVM(c, n) ==
  [NewVMWithGlobalsStore(ByteCode(c), emptySlice) EXCEPT
     !.stack = Put(emptySlice, 0, ObjectAt(c.constants, Uint16(n - 1))),
     !.ip = 4,
     !.status = "done"]

\* the state of the session after n lines `1`, n >= 1, c being the
\* compiler of the last of them
OnesState(n, c) ==
  /\ evalEnv = NewEnvironment
  /\ heap = << >>
  /\ pc = "prompt"
  /\ prog = Single(Lit(1))
  /\ cmp = c
  /\ symbolTable = NewSymbolTable
  /\ constants = OnesPool(n)
  /\ globals = emptySlice
  /\ vm = OnesVM(c, n)
  /\ output = [kind |-> "value", stackTop |-> Integer(1)]
  /\ nlines = n
  /\ defLog = << >>
  /\ lastStored = << >>

AfterOnes(n) == OnesState(n, OnesCompiler(n))

RECURSIVE RunVM(_)
\* vm.RunVM() as a whole: the loop run to its return or to a panic
RunVM(m) ==
  IF m.status # "running" THEN m
  ELSE IF LoopRuns(m) THEN RunVM(RunVMIteration(m))
  ELSE [m EXCEPT !.status = "done"]

\* let b = 2; true + 1     (defines b, stores 2, then aborts at run time)
DefiningLine ==
  Line(<<LetStatement("b", Lit(2)), Stmt(Bin(Boolean(TRUE), "+", Lit(1)))>>)
\* let a = 2; let c = zz;  (defines a, then fails to compile)
FailingLine ==
  Line(<<LetStatement("a", Lit(2)), LetStatement("c", Identifier("zz"))>>)

\* the compiler and the VM of DefiningLine typed as the first line
DefiningCompiler == Compile(DefiningLine, NewWithState(NewSymbolTable, NoObjects))
DefiningVM(c) == RunVM(NewVMWithGlobalsStore(ByteCode(c), emptySlice))

\* the symbol table after DefiningLine and k lines FailingLine: every
\* FailingLine has called Define("a") once (store is the store after
\* DefiningLine)
DefsTable(store, k) ==
  [Outer |-> nilTable,
   store |-> IF k = 0
               THEN store
               ELSE ("a" :> [Name |-> "a", Scope |-> GlobalScope, Index |-> k]) @@ store,
   defCount |-> k + 1]

\* the state of the session after DefiningLine (compiled by c, run by m)
\* and n - 1 lines FailingLine, n >= 2: the failing lines leave the
\* constants, the globals and the VM of the first line as they were
DefsState(n, c, m) ==
  /\ evalEnv = NewEnvironment
  /\ heap = << >>
  /\ pc = "prompt"
  /\ prog = FailingLine
  /\ cmp = Compile(FailingLine,
                   NewWithState(DefsTable(c.symbolTable.store, n - 2), c.constants))
  /\ symbolTable = DefsTable(c.symbolTable.store, n - 1)
  /\ constants = c.constants
  /\ globals = m.globals
  /\ vm = m
  /\ output = [kind |-> "Compilation failed:", err |-> <<"undefined variable:", "zz">>]
  /\ nlines = n
  /\ defLog = <<[ob |-> "b", n |-> 1], [ob |-> "a", n |-> n - 1]>>
  /\ lastStored = ("b" :> Integer(2))

\* c is the compiler and m the VM of DefiningLine
AfterDefs(n) == DefsState(n, DefiningCompiler, DefiningVM(DefiningCompiler))

InitLong == AfterOnes(PriorLines) \/ AfterDefs(PriorLines)

NextLong ==
  ReadLine(LongLines, PriorLines + MaxLongLines) \/ Step \/ Return \/ Report \/ EndOfInput

SpecLong == InitLong /\ [][NextLong]_vars

\* ---------------------------------------------------------------------
\* Hand-assembled bytecode run by NewVM / RunVM
\* ---------------------------------------------------------------------
Ins(op) == MakeInstruction(op, << >>)
Ins1(op, operand) == MakeInstruction(op, <<operand>>)

\* the constants of the hand-assembled programs
RawConstants ==
  Objects(<< Integer(1), Integer(0),
             String("foo", <<"const", 2>>), String("bar", <<"const", 3>>) >>)

\* instructions that push one object
Pushes ==
  { Ins1(OpConstant, 0), Ins1(OpConstant, 1), Ins1(OpConstant, 2),
    Ins1(OpConstant, 3), Ins(OpTrue), Ins(OpFalse), Ins(OpNull),
    Ins1(OpArray, 0), Ins1(OpHash, 0) }

\* instructions applied to the two objects pushed
Operations ==
  { Ins(op) : op \in {OpAdd, OpSub, OpMul, OpDiv, OpEqual, OpNotEqual,
                       OpGreaterThan, OpMinus, OpBang, OpPop, OpIndex} }
  \cup { Ins1(OpHash, 2), Ins1(OpHash, 0), Ins1(OpArray, 2), Ins1(OpArray, 1),
         Ins1(OpSetGlobal, 0), Ins1(OpGetGlobal, 0) }

\* push, push, operate, pop
SmallPrograms ==
  { p1 \o p2 \o o \o Ins(OpPop) : p1 \in Pushes, p2 \in Pushes, o \in Operations }

\* StackSize pushes, which fill the stack
FullStack == [i \in 1..StackSize |-> OpTrue]

\* one more instruction that pushes, on a full stack
OverflowPrograms ==
  { FullStack \o t : t \in {Ins(OpTrue), Ins(OpNull), Ins1(OpConstant, 0),
                            Ins1(OpGetGlobal, 0), Ins1(OpArray, 0), Ins1(OpHash, 0)} }

\* push, then a conditional: OpJumpNotTruthy over OpTrue and an OpJump to
\* the last OpPop, or on to OpFalse
JumpPrograms ==
  { p \o Ins1(OpJumpNotTruthy, Len(p) + 7) \o Ins(OpTrue)
      \o Ins1(OpJump, Len(p) + 8) \o Ins(OpFalse) \o Ins(OpPop) : p \in Pushes }

\* key, value, key, value, then OpHash 4: two pairs, the keys being equal
\* or not, hashable or not
HashPrograms ==
  { k1 \o v1 \o k2 \o v2 \o Ins1(OpHash, 4) \o Ins(OpPop) :
      k1 \in {Ins1(OpConstant, 0), Ins1(OpConstant, 1), Ins1(OpConstant, 2),
               Ins(OpTrue), Ins(OpNull)},
      k2 \in {Ins1(OpConstant, 0), Ins1(OpConstant, 1), Ins1(OpConstant, 2),
               Ins(OpTrue), Ins(OpNull)},
      v1 \in {Ins1(OpConstant, 0), Ins(OpFalse)},
      v2 \in {Ins1(OpConstant, 0), Ins(OpFalse)} }

RawPrograms == SmallPrograms \cup OverflowPrograms \cup JumpPrograms \cup HashPrograms

InitVM ==
  /\ evalEnv = NewEnvironment
  /\ heap = << >>
  /\ pc = "run"
  /\ prog = nilNode
  /\ cmp = NewCompiler
  /\ symbolTable = NewSymbolTable
  /\ constants = NoObjects
  /\ globals = emptySlice
  /\ \E p \in RawPrograms : vm = NewVM([Instructions |-> p, Constants |-> RawConstants])
  /\ output = noOutput
  /\ nlines = 0
  /\ defLog = << >>
  /\ lastStored = << >>

NextVM == Step \/ Return

SpecVM == InitVM /\ [][NextVM]_vars

\* ---------------------------------------------------------------------
\* The tests of package code: TestMake, TestReadOperands and
\* TestInstructionsString run on one test case.  prog is the test case,
\* output what the functions under test returned.
\* ---------------------------------------------------------------------
\* the operand values of a declared width: the ends and the middle of the
\* range of the width
OperandsOfWidth(w) ==
  IF w = 2 THEN {0, 1, 2, 255, 256, 65534, 65535}
  ELSE IF w = 1 THEN {0, 1, 5, 255}
  ELSE {0}

\* the operand vectors with one value per declared operand (the table
\* declares at most one operand)
OperandVectors(op) ==
  IF Len(definitions[op].OperandWidth) = 0 THEN {<< >>}
  ELSE {<<v>> : v \in OperandsOfWidth(definitions[op].OperandWidth[1])}

\* tt of TestMake / TestReadOperands
CodeTests ==
  {[kind |-> "tt", op |-> op, operands |-> operands] :
     op \in DOMAIN definitions, operands \in UNION {OperandVectors(o) : o \in DOMAIN definitions}}

\* the instructions streams are made of
StreamInstructions ==
  { [op |-> OpAdd, operands |-> << >>],
    [op |-> OpConstant, operands |-> <<2>>],
    [op |-> OpConstant, operands |-> <<65535>>],
    [op |-> OpJump, operands |-> <<256>>],
    [op |-> OpGetLocal, operands |-> <<5>>],
    [op |-> OpPop, operands |-> << >>] }

\* instructions of TestInstructionsString
StreamTests ==
  {[kind |-> "instructions", list |-> l] :
     l \in UNION {[1..n -> StreamInstructions] : n \in 1..MaxStream}}

RECURSIVE Concat(_, _)
\* concat = append(concat, ins...) over the first k instructions
Concat(list, k) ==
  IF k = 0 THEN << >>
  ELSE Concat(list, k - 1) \o MakeInstruction(list[k].op, list[k].operands)

InitCode ==
  /\ evalEnv = NewEnvironment
  /\ heap = << >>
  /\ pc \in {"tt", "instructions"}
  /\ prog \in {t \in CodeTests : t.operands \in OperandVectors(t.op)} \cup StreamTests
  /\ prog.kind = pc
  /\ cmp = NewCompiler
  /\ symbolTable = NewSymbolTable
  /\ constants = NoObjects
  /\ globals = emptySlice
  /\ vm = noVM
  /\ output = noOutput
  /\ nlines = 0
  /\ defLog = << >>
  /\ lastStored = << >>

\* instruction := MakeInstruction(tt.op, tt.operands...)
TestMake ==
  /\ pc = "tt"
  /\ output' = [kind |-> "instruction",
                instruction |-> MakeInstruction(prog.op, prog.operands)]
  /\ pc' = "made"
  /\ UNCHANGED <<evalEnv, heap, prog, cmp, symbolTable, constants, globals, vm, nlines,
                 defLog, lastStored>>

\* def, err := Lookup(byte(tt.op));
\* operandsRead, n := ReadOperands(def, instruction[1:])
TestReadOperands ==
  /\ pc = "made"
  /\ Lookup(prog.op)
  /\ LET r == ReadOperands(definitions[prog.op],
                           SubSeq(output.instruction, 2, Len(output.instruction)))
     IN output' = [kind |-> "operandsRead", operandsRead |-> r.operands, n |-> r.read]
  /\ pc' = "read"
  /\ UNCHANGED <<evalEnv, heap, prog, cmp, symbolTable, constants, globals, vm, nlines,
                 defLog, lastStored>>

\* concat.String() of the concatenated instructions
TestInstructionsString ==
  /\ pc = "instructions"
  /\ LET concat == Concat(prog.list, Len(prog.list))
     IN output' = [kind |-> "String", concat |-> concat,
                   lines |-> InstructionsString(concat)]
  /\ pc' = "printed"
  /\ UNCHANGED <<evalEnv, heap, prog, cmp, symbolTable, constants, globals, vm, nlines,
                 defLog, lastStored>>

NextCode == TestMake \/ TestReadOperands \/ TestInstructionsString

SpecCode == InitCode /\ [][NextCode]_vars

\* ---------------------------------------------------------------------
\* The symbol table on its own: a chain of enclosed tables, symbolTable
\* being the innermost one and Outer leading to the global table.  Every
\* table has one holder of its pointer per level of the chain, so a call
\* on an outer table is a change of the table found at that depth.  defLog
\* is history: for every table of the chain, the global one first, the
\* names passed to its Define in order.  prog is the call made, output
\* what it returned.
\* ---------------------------------------------------------------------
RECURSIVE ChainLen(_)
\* the number of tables from s to the global table
ChainLen(s) == IF s = nilTable THEN 0 ELSE 1 + ChainLen(s.Outer)

RECURSIVE TableAt(_, _)
\* the table k levels out of s
TableAt(s, k) == IF k = 0 THEN s ELSE TableAt(s.Outer, k - 1)

RECURSIVE DefineAt(_, _, _)
\* the chain after Define(name) on the table k levels out of s
DefineAt(s, k, name) ==
  IF k = 0 THEN Define(s, name).table
  ELSE [s EXCEPT !.Outer = DefineAt(s.Outer, k - 1, name)]

Names == {"a", "b"}

RECURSIVE TotalLen(_, _)
\* the number of names in the first k logs
TotalLen(logs, k) == IF k = 0 THEN 0 ELSE TotalLen(logs, k - 1) + Len(logs[k])

InitSym ==
  /\ evalEnv = NewEnvironment
  /\ heap = << >>
  /\ pc = "symbols"
  /\ prog = nilNode
  /\ cmp = NewCompiler
  /\ symbolTable = NewSymbolTable
  /\ constants = NoObjects
  /\ globals = emptySlice
  /\ vm = noVM
  /\ output = noOutput
  /\ nlines = 0
  /\ defLog = << << >> >>
  /\ lastStored = << >>

\* symbol := t.Define(name), t the table k levels out of the innermost
CallDefine ==
  /\ pc = "symbols"
  /\ TotalLen(defLog, Len(defLog)) < MaxDefines
  /\ \E k \in 0..(ChainLen(symbolTable) - 1), name \in Names :
       LET t == ChainLen(symbolTable) - k
       IN /\ prog' = [kind |-> "Define", table |-> t, name |-> name]
          /\ output' = [kind |-> "Symbol",
                        symbol |-> Define(TableAt(symbolTable, k), name).symbol]
          /\ symbolTable' = DefineAt(symbolTable, k, name)
          /\ defLog' = [defLog EXCEPT ![t] = Append(@, name)]
  /\ UNCHANGED <<evalEnv, heap, pc, cmp, constants, globals, vm, nlines, lastStored>>

\* s := NewEnclosedSymbolTable(s)
CallNewEnclosed ==
  /\ pc = "symbols"
  /\ ChainLen(symbolTable) < MaxTables
  /\ prog' = [kind |-> "NewEnclosedSymbolTable"]
  /\ symbolTable' = NewEnclosedSymbolTable(symbolTable)
  /\ defLog' = Append(defLog, << >>)
  /\ output' = noOutput
  /\ UNCHANGED <<evalEnv, heap, pc, cmp, constants, globals, vm, nlines, lastStored>>

\* symbol, ok := t.Resolve(name), t the table k levels out of the innermost
CallResolve ==
  /\ pc = "symbols"
  /\ \E k \in 0..(ChainLen(symbolTable) - 1), name \in Names :
       LET r == Resolve(TableAt(symbolTable, k), name)
       IN /\ prog' = [kind |-> "Resolve", table |-> ChainLen(symbolTable) - k,
                      name |-> name]
          /\ output' = [kind |-> "Resolved", symbol |-> r.symbol, ok |-> r.ok]
  /\ UNCHANGED <<evalEnv, heap, pc, cmp, symbolTable, constants, globals, vm, nlines,
                 defLog, lastStored>>

NextSym == CallDefine \/ CallNewEnclosed \/ CallResolve

SpecSym == InitSym /\ [][NextSym]_vars

\* ---------------------------------------------------------------------
\* The evaluator run on a program: evalRootStatement, one statement per
\* step.  nlines counts the statements evaluated, output holds the result
\* variable of the loop.
\* ---------------------------------------------------------------------
Call(name, args) == CallExpression(Identifier(name), args)

\* the statements the programs are made of
EvalStatements ==
  { LetStatement("a", ArrayLiteral(<<Lit(1), Lit(2)>>)),
    LetStatement("a", ArrayLiteral(<< >>)),
    LetStatement("b", Lit(3)),
    LetStatement("b", StringLiteral("foo")),
    LetStatement("c", Call("push", <<Identifier("a"), Identifier("b")>>)),
    Stmt(Call("push", <<Identifier("a"), Identifier("a")>>)),
    Stmt(Call("push", <<Identifier("a")>>)),
    Stmt(Call("push", <<Identifier("b"), Identifier("a")>>)),
    Stmt(Call("len", <<Lit(1)>>)),
    Stmt(Call("len", << >>)),
    Stmt(Call("len", <<Identifier("b")>>)),
    LetStatement("b", Call("first", <<Identifier("b")>>)),
    Stmt(Call("last", <<Identifier("c")>>)),
    LetStatement("a", Call("rest", <<Identifier("c")>>)),
    Stmt(Call("puts", <<Identifier("a")>>)),
    Stmt(Lit(5)) }

EvalPrograms ==
  {RootStatement(ss) : ss \in UNION {[1..n -> EvalStatements] : n \in 1..MaxStatements}}

InitEval ==
  /\ pc = "evaluate"
  /\ prog \in EvalPrograms
  /\ evalEnv = NewEnvironment
  /\ heap = << >>
  /\ output = [kind |-> "result", result |-> nil]
  /\ nlines = 0
  /\ cmp = NewCompiler
  /\ symbolTable = NewSymbolTable
  /\ constants = NoObjects
  /\ globals = emptySlice
  /\ vm = noVM
  /\ defLog = << >>
  /\ lastStored = << >>

\* one iteration of the loop of evalRootStatement: the next statement is
\* evaluated, and an Error result is returned at once
EvalStatement ==
  /\ pc = "evaluate"
  /\ nlines < Len(prog.Statements)
  /\ LET r == Evaluate(prog.Statements[nlines + 1], evalEnv, heap)
     IN /\ output' = [kind |-> "result", result |-> r.v]
        /\ evalEnv' = r.env
        /\ heap' = r.heap
        /\ pc' = IF isError(r.v) THEN "returned" ELSE pc
  /\ nlines' = nlines + 1
  /\ UNCHANGED <<prog, cmp, symbolTable, constants, globals, vm, defLog, lastStored>>

\* the loop of evalRootStatement is over: result is returned
EvalReturn ==
  /\ pc = "evaluate"
  /\ nlines = Len(prog.Statements)
  /\ pc' = "returned"
  /\ UNCHANGED <<prog, cmp, symbolTable, constants, globals, vm, output, nlines,
                 defLog, lastStored, evalEnv, heap>>

NextEval == EvalStatement \/ EvalReturn

SpecEval == InitEval /\ [][NextEval]_vars

\* ---------------------------------------------------------------------
\* Compile on a long program: a root statement made of n statements "a;"
\* and one last statement, a being global 0 of the symbol table handed to
\* NewWithState.  The state starts when the loop of Compile over
\* root.Statements has compiled the n statements: each has emitted
\* OpGetGlobal 0 and OpPop.  prog is the last statement, nlines is n.
\* ---------------------------------------------------------------------
\* the symbol table left by the line `let a = 1;`
TableOfA == Define(NewSymbolTable, "a").table

\* the compiler after n statements "a;"
GetsCompiled(n) ==
  [NewWithState(TableOfA, Repeat(Integer(1), 1)) EXCEPT
     !.instructions = [i \in 1..(4 * n) |->
                         (<<OpGetGlobal, 0, 0, OpPop>>)[((i - 1) % 4) + 1]],
     !.lastInstruction = IF n = 0 THEN zeroEmitted
                         ELSE [OpCode |-> OpPop, Position |-> 4 * n - 1],
     !.previousInstruction = IF n = 0 THEN zeroEmitted
                             ELSE [OpCode |-> OpGetGlobal, Position |-> 4 * n - 4]]

\* the numbers of statements before the last one
BigCounts == {0, 1, BigStatements - 1, BigStatements}

\* the last statements
LastStatements ==
  {Stmt(IfExpression(c, a, b)) :
     c \in Conds,
     a \in {Block1(Lit(10)), BlockStatement(<< >>),
            Block1(IfExpression(Boolean(TRUE), Block1(Lit(1)), nilNode))},
     b \in {nilNode, Block1(Lit(20))}}

InitBig ==
  /\ pc = "compiling"
  /\ prog \in LastStatements
  /\ nlines \in BigCounts
  /\ cmp = GetsCompiled(nlines)
  /\ symbolTable = TableOfA
  /\ constants = Repeat(Integer(1), 1)
  /\ globals = emptySlice
  /\ vm = noVM
  /\ output = noOutput
  /\ defLog = << >>
  /\ lastStored = << >>
  /\ evalEnv = NewEnvironment
  /\ heap = << >>

\* err := c.Compile(stmt) for the last statement of the root statement
CompileLast ==
  /\ pc = "compiling"
  /\ cmp' = Compile(prog, cmp)
  /\ symbolTable' = cmp'.symbolTable
  /\ pc' = "compiled"
  /\ UNCHANGED <<prog, constants, globals, vm, output, nlines, defLog, lastStored,
                 evalEnv, heap>>

NextBig == CompileLast

SpecBig == InitBig /\ [][NextBig]_vars

\* ---------------------------------------------------------------------
\* The value of an expression: the meaning the language gives to the AST,
\* against which the compiled code is judged.  Denote(node, env) is the
\* value of node and the environment after it; a statement without a
\* value (let, empty block) has the value nil, an expression without a
\* value (type mismatch, division by zero, unbound identifier) has the
\* value NoValue.  Strings, arrays and hashes are given by their content.
\* ---------------------------------------------------------------------
NoValue == [type |-> "NOVALUE"]
StringOf(str) == [type |-> STRING_OBJ, Value |-> str]
ArrayOf(es) == [type |-> ARRAY_OBJ, Elements |-> es]
HashOf(ps) == [type |-> HASH_OBJ, Pairs |-> ps]

RECURSIVE Content(_)
\* an object of the VM without the identity of its allocation
Content(ob) ==
  CASE ob.type = STRING_OBJ -> StringOf(ob.Value)
    [] ob.type = ARRAY_OBJ ->
         ArrayOf([k \in 1..Len(ob.Elements) |-> Content(ob.Elements[k])])
    [] ob.type = HASH_OBJ ->
         HashOf([k \in DOMAIN ob.Pairs |->
                   [Key |-> Content(ob.Pairs[k].Key),
                    Value |-> Content(ob.Pairs[k].Value)]])
    [] OTHER -> ob

\* left OP right of two values
DenoteInfix(o, l, r) ==
  CASE l.type = INTEGER_OBJ /\ r.type = INTEGER_OBJ ->
         CASE o = "+" -> Integer(l.Value + r.Value)
           [] o = "-" -> Integer(l.Value - r.Value)
           [] o = "*" -> Integer(l.Value * r.Value)
           [] o = "/" -> IF r.Value = 0 THEN NoValue
                         ELSE Integer(Quo(l.Value, r.Value))
           [] o = "<" -> boolNativeToBoolObject(l.Value < r.Value)
           [] o = ">" -> boolNativeToBoolObject(l.Value > r.Value)
           [] o = "==" -> boolNativeToBoolObject(l.Value = r.Value)
           [] o = "!=" -> boolNativeToBoolObject(l.Value # r.Value)
           [] OTHER -> NoValue
    [] l.type = STRING_OBJ /\ r.type = STRING_OBJ /\ o = "+" ->
         StringOf(l.Value \o r.Value)
    [] o = "==" /\ {l, r} \subseteq {True, False, Null} ->
         boolNativeToBoolObject(l = r)
    [] o = "!=" /\ {l, r} \subseteq {True, False, Null} ->
         boolNativeToBoolObject(l # r)
    \* two objects of different kinds are never the same object
    [] o = "==" /\ l.type # r.type -> False
    [] o = "!=" /\ l.type # r.type -> True
    [] OTHER -> NoValue

\* left[index]
DenoteIndex(l, i) ==
  CASE l.type = ARRAY_OBJ /\ i.type = INTEGER_OBJ ->
         IF i.Value < 0 \/ i.Value > Len(l.Elements) - 1 THEN Null
         ELSE l.Elements[i.Value + 1]
    [] l.type = HASH_OBJ /\ i.type \in {INTEGER_OBJ, BOOLEAN_OBJ, STRING_OBJ} ->
         IF HashKey(i) \in DOMAIN l.Pairs THEN l.Pairs[HashKey(i)].Value ELSE Null
    [] OTHER -> NoValue

RECURSIVE Denote(_, _)
RECURSIVE DenoteStatements(_, _, _, _)
RECURSIVE DenoteElements(_, _, _)
RECURSIVE DenotePairs(_, _, _, _)

\* the statements from i on; last is the value of statement i - 1
DenoteStatements(stmts, i, env, last) ==
  IF i > Len(stmts) \/ last = NoValue THEN [v |-> last, env |-> env]
  ELSE LET d == Denote(stmts[i], env)
       IN DenoteStatements(stmts, i + 1, d.env, d.v)

\* the values of the expressions es[i..]; ok is FALSE if one has none
DenoteElements(es, i, env) ==
  IF i > Len(es) THEN [ok |-> TRUE, vs |-> << >>]
  ELSE LET d == Denote(es[i], env).v
           rest == DenoteElements(es, i + 1, env)
       IN [ok |-> d # NoValue /\ d # nil /\ rest.ok, vs |-> <<d>> \o rest.vs]

\* the pairs ps[i..] added to the map acc
DenotePairs(ps, i, env, acc) ==
  IF i > Len(ps) THEN HashOf(acc)
  ELSE LET k == Denote(ps[i][1], env).v
           v == Denote(ps[i][2], env).v
       IN IF k = NoValue \/ v = NoValue THEN NoValue
          ELSE IF k.type \notin {INTEGER_OBJ, BOOLEAN_OBJ, STRING_OBJ} THEN NoValue
          ELSE DenotePairs(ps, i + 1, env,
                 [h \in (DOMAIN acc) \cup {HashKey(k)} |->
                    IF h = HashKey(k) THEN [Key |-> k, Value |-> v] ELSE acc[h]])

Denote(node, env) ==
  CASE node.kind \in {"RootStatement", "BlockStatement"} ->
         DenoteStatements(node.Statements, 1, env, nil)
    [] node.kind = "LetStatement" ->
         LET d == Denote(node.Value, env)
         IN IF d.v = NoValue THEN d
            ELSE [v |-> nil,
                  env |-> [n \in (DOMAIN d.env) \cup {node.Name} |->
                             IF n = node.Name THEN d.v ELSE d.env[n]]]
    [] node.kind = "ExpressionStatement" -> Denote(node.Expression, env)
    [] node.kind = "Identifier" ->
         [v |-> IF node.Value \in DOMAIN env THEN env[node.Value] ELSE NoValue,
          env |-> env]
    [] node.kind = "IntegerLiteral" -> [v |-> Integer(node.Value), env |-> env]
    [] node.kind = "Boolean" -> [v |-> boolNativeToBoolObject(node.Value), env |-> env]
    [] node.kind = "StringLiteral" -> [v |-> StringOf(node.Value), env |-> env]
    [] node.kind = "ArrayLiteral" ->
         LET es == DenoteElements(node.Elements, 1, env)
         IN [v |-> IF es.ok THEN ArrayOf(es.vs) ELSE NoValue, env |-> env]
    [] node.kind = "HashLiteral" ->
         [v |-> DenotePairs(node.Pairs, 1, env, [h \in {} |-> nil]), env |-> env]
    [] node.kind = "IndexExpression" ->
         LET l == Denote(node.Left, env).v
             i == Denote(node.Index, env).v
         IN [v |-> IF l = NoValue \/ i = NoValue THEN NoValue ELSE DenoteIndex(l, i),
             env |-> env]
    [] node.kind = "PrefixExpression" ->
         LET d == Denote(node.Right, env)
         IN [v |-> CASE d.v = NoValue \/ d.v = nil -> NoValue
                     [] node.Operator = "!" -> boolNativeToBoolObject(~isTruthy(d.v))
                     [] node.Operator = "-" /\ d.v.type = INTEGER_OBJ ->
                          Integer(-d.v.Value)
                     [] OTHER -> NoValue,
             env |-> d.env]
    [] node.kind = "InfixExpression" ->
         LET l == Denote(node.Left, env)
             r == Denote(node.Right, l.env)
         IN [v |-> IF l.v \in {NoValue, nil} \/ r.v \in {NoValue, nil} THEN NoValue
                   ELSE DenoteInfix(node.Operator, l.v, r.v),
             env |-> r.env]
    [] node.kind = "IfExpression" ->
         LET c == Denote(node.Condition, env)
         IN IF c.v \in {NoValue, nil} THEN [v |-> NoValue, env |-> c.env]
            ELSE IF isTruthy(c.v) THEN Denote(node.Consequence, c.env)
            ELSE IF node.Alternative = nilNode THEN [v |-> Null, env |-> c.env]
            ELSE Denote(node.Alternative, c.env)
    [] OTHER -> [v |-> NoValue, env |-> env]

emptyEnv == [n \in {} |-> nil]

\* the value of a program run from an empty environment
ValueOf(root) == Denote(root, emptyEnv).v

\* a value proper: not nil, not NoValue
IsValue(v) == v # nil /\ v # NoValue

\* ---------------------------------------------------------------------
\* Properties
\* ---------------------------------------------------------------------
\* the test input is a single expression statement
IsSingle == prog.kind = "RootStatement" /\ Len(prog.Statements) = 1
            /\ prog.Statements[1].kind = "ExpressionStatement"
\* its expression
TheExpr == prog.Statements[1].Expression

\* C1: at every instruction boundary of RunVM on compiled bytecode
\* 0 <= sp <= StackSize, no pop is executed with sp = 0 (the pop would
\* index the stack at -1) and no push stores at index StackSize.
C1_StackPointerInRange ==
  /\ vm.sp >= 0 /\ vm.sp <= StackSize
  /\ vm.panic # IndexOutOfRange(-1)
  /\ DOMAIN vm.stack \subseteq 0..(StackSize - 1)

\* C2: a single expression statement that compiles and runs without error
\* leaves sp at 0 and its value in LastPoppedStackElement.
C2_ExpressionStatementNeutral ==
  (IsSingle /\ pc = "run" /\ vm.status = "done") =>
     /\ vm.sp = 0
     /\ LastPoppedStackElement(vm) # nil
     /\ Content(LastPoppedStackElement(vm)) = ValueOf(prog)

\* RunVM is about to execute the instruction op
About(op) == pc = "run" /\ vm.status = "running" /\ LoopRuns(vm) /\ CurrentOp = op

\* C3: across the lines of a session an identifier bound by an executed
\* let reads back the object most recently stored for its name, and no
\* step of the session changes a globals slot that was already written.
C3_LetReadsBack ==
  [][ /\ (About(OpGetGlobal) /\ NameOf(CurrentOperand) \in DOMAIN lastStored)
           => /\ vm'.status = "running"
              /\ At(vm'.stack, vm.sp) = lastStored[NameOf(CurrentOperand)]
      /\ \A i \in DOMAIN globals : At(globals', i) = globals[i] ]_vars

\* a run that has ended: RunVM returned or the process panicked
RunEnded == pc \in {"run", "crashed"} /\ vm.status \in {"done", "error", "panic"}

\* the run ended normally with the value of the program as last popped
YieldsValue ==
  /\ vm.status = "done"
  /\ LastPoppedStackElement(vm) # nil
  /\ Content(LastPoppedStackElement(vm)) = ValueOf(prog)

\* C4: an if-expression used as an expression statement yields the value
\* of the branch its condition selects, Null when the condition is falsy
\* and there is no else-branch.
C4_IfYieldsBranch ==
  (IsSingle /\ TheExpr.kind = "IfExpression" /\ IsValue(ValueOf(prog)) /\ RunEnded)
    => YieldsValue

RECURSIVE IsIntTree(_)
\* an expression tree over integer literals, + - * / and unary minus
IsIntTree(node) ==
  CASE node.kind = "IntegerLiteral" -> TRUE
    [] node.kind = "InfixExpression" ->
         node.Operator \in ArithOps /\ IsIntTree(node.Left) /\ IsIntTree(node.Right)
    [] node.kind = "PrefixExpression" -> node.Operator = "-" /\ IsIntTree(node.Right)
    [] OTHER -> FALSE

ArithmeticOps == {OpAdd, OpSub, OpMul, OpDiv}

\* left OP right of two integers
Arith(op, l, r) ==
  CASE op = OpAdd -> l + r
    [] op = OpSub -> l - r
    [] op = OpMul -> l * r
    [] op = OpDiv -> Quo(l, r)

\* RunVM is about to execute an arithmetic instruction on two integers
AboutArith ==
  /\ pc = "run" /\ vm.status = "running" /\ LoopRuns(vm)
  /\ CurrentOp \in ArithmeticOps
  /\ vm.sp >= 2
  /\ At(vm.stack, vm.sp - 1) # nil /\ At(vm.stack, vm.sp - 2) # nil
  /\ Type(At(vm.stack, vm.sp - 1)) = INTEGER_OBJ
  /\ Type(At(vm.stack, vm.sp - 2)) = INTEGER_OBJ

\* C5: an arithmetic instruction on two integers takes the top of the
\* stack as right operand and the object below as left and leaves
\* left OP right in their place (division by zero is an error), and a
\* nested integer expression evaluates to the value of its tree.
C5_IntegerArithmetic ==
  [][ /\ AboutArith =>
           LET right == At(vm.stack, vm.sp - 1).Value
               left == At(vm.stack, vm.sp - 2).Value
           IN IF CurrentOp = OpDiv /\ right = 0
                THEN vm'.status = "error" /\ vm'.err = <<"division by zero">>
                ELSE /\ vm'.status = "running"
                     /\ vm'.sp = vm.sp - 1
                     /\ At(vm'.stack, vm.sp - 2) = Integer(Arith(CurrentOp, left, right))
      /\ (IsSingle /\ IsIntTree(TheExpr) /\ IsValue(ValueOf(prog)) /\ RunEnded)'
           => YieldsValue' ]_vars

\* 50 / 2 * 2 + 10 - 5 has run and left 55
C5_Witness ==
  /\ prog = Single(Bin(Bin(Bin(Bin(Lit(50), "/", Lit(2)), "*", Lit(2)), "+", Lit(10)),
                       "-", Lit(5)))
  /\ pc = "run" /\ vm.status = "done"
  /\ LastPoppedStackElement(vm) = Integer(55)

\* the handler of the instruction RunVM is about to execute reports an error
Faulting ==
  /\ pc = "run" /\ vm.status = "running" /\ LoopRuns(vm)
  /\ Handler(vm).panic = NoPanic
  /\ Handler(vm).err # NoErr

\* C6: when a handler reports an error RunVM returns that error at once;
\* after the return no instruction runs and nothing is written to the
\* stack or to the globals.
C6_ErrorReturnsImmediately ==
  [][ /\ Faulting => /\ vm'.status = "error"
                     /\ vm'.err = Handler(vm).err
                     /\ vm'.globals = vm.globals
                     /\ globals' = globals
      /\ vm.status = "error" => (vm' = vm /\ globals' = globals) ]_vars

\* 1 / 0 has returned "division by zero" with the following OpPop not run
C6_Witness ==
  /\ vm.status = "error"
  /\ vm.err = <<"division by zero">>
  /\ vm.ip + 1 < Len(vm.instructions)
  /\ vm.instructions[vm.ip + 1] = OpDiv

\* C7, as stated: when RunVM returns a run-time error the contents of the
\* stack and sp are what they were before the faulting instruction.
C7_StackAndSpUntouched ==
  [][ Faulting => (vm'.stack = vm.stack /\ vm'.sp = vm.sp) ]_vars

\* the operands a handler has popped when it reports its error
PoppedBeforeError(op) ==
  IF op \in ArithmeticOps \cup {OpEqual, OpNotEqual, OpGreaterThan} THEN 2
  ELSE IF op = OpMinus THEN 1
  ELSE 0

\* C7, amended: when RunVM returns a run-time error no slot of the stack
\* has been written; sp is lower by the operands the handler had popped:
\* two for a binary operation or comparison, one for a negation, none for
\* a hash key, a stack overflow or an unknown opcode.
C7_StackSlotsUntouched ==
  [][ Faulting => /\ vm'.stack = vm.stack
                  /\ vm'.sp = vm.sp - PoppedBeforeError(CurrentOp) ]_vars

\* 1 + true has failed: both operands are still in their slots, sp is 0
C7_Witness ==
  /\ vm.status = "error"
  /\ vm.err = <<"invalid types for binary operation:", INTEGER_OBJ, BOOLEAN_OBJ>>
  /\ vm.sp = 0
  /\ At(vm.stack, 0) = Integer(1) /\ At(vm.stack, 1) = True

\* C8: every expression that has a value, of whatever node kind, compiles
\* and runs to that value as the last popped element.
C8_EveryExpressionKind ==
  (IsSingle /\ IsValue(ValueOf(prog)) /\ RunEnded) => YieldsValue

\* the operands of the jumps of an instruction stream
JumpTargets(in) ==
  {d.operands[1] : d \in {x \in Disassemble(in, 0) : x.op \in {OpJump, OpJumpNotTruthy}}}

\* C9: after Compile returns without error the operand of every OpJump and
\* OpJumpNotTruthy lies in 0..len(instructions).
C9_JumpTargetsInRange ==
  cmp.err = NoErr =>
    \A t \in JumpTargets(cmp.instructions) : t >= 0 /\ t <= Len(cmp.instructions)

\* if (true) { if (true) { 1 } } is compiled: the inner if was patched,
\* then the OpPop after it removed; the stream holds four jumps
C9_Witness ==
  /\ pc = "run"
  /\ prog = Single(IfExpression(Boolean(TRUE),
                     Block1(IfExpression(Boolean(TRUE), Block1(Lit(1)), nilNode)),
                     nilNode))
  /\ Cardinality({d \in Disassemble(cmp.instructions, 0) :
                    d.op \in {OpJump, OpJumpNotTruthy}}) = 4

\* C10: in the bytecode of every line every OpConstant operand is an
\* index below len(Constants) and denotes the object that was added when
\* the instruction was emitted.
C10_ConstantOperands ==
  cmp.err = NoErr =>
    \A e \in cmp.constLog :
      LET operand == ReadUint16(SubSeq(cmp.instructions, e.pos + 2, e.pos + 3))
      IN /\ cmp.instructions[e.pos + 1] = OpConstant
         /\ operand < NumObjects(ByteCode(cmp).Constants)
         /\ ObjectAt(ByteCode(cmp).Constants, operand) = e.ob

\* C11: every symbol of the session's table has an index below
\* GlobalsSize, so the 16-bit operand emitted for it is its own slot and
\* no two symbols share a slot.
C11_GlobalIndexInRange ==
  /\ \A n \in DOMAIN symbolTable.store : symbolTable.store[n].Index < GlobalsSize
  /\ \A n1, n2 \in DOMAIN symbolTable.store :
       n1 # n2 => Uint16(symbolTable.store[n1].Index) # Uint16(symbolTable.store[n2].Index)

RECURSIVE Sum(_, _)
\* the sum of the first k widths
Sum(widths, k) == IF k = 0 THEN 0 ELSE Sum(widths, k - 1) + widths[k]

\* C12: decoding the operand bytes of an encoded instruction returns the
\* operands that were encoded and the sum of the declared widths as the
\* number of bytes read.
C12_EncodeDecodeRoundTrip ==
  pc = "read" =>
    /\ output.operandsRead = prog.operands
    /\ output.n = Sum(definitions[prog.op].OperandWidth,
                      Len(definitions[prog.op].OperandWidth))

RECURSIVE BigEndian(_, _)
\* the w bytes of v, most significant first
BigEndian(v, w) ==
  IF w = 0 THEN << >> ELSE BigEndian(v \div 256, w - 1) \o <<v % 256>>

\* C13: an encoded instruction is the opcode byte followed by the operand,
\* big-endian in its declared width: one byte more than the declared widths.
C13_EncodingLayout ==
  pc = "made" =>
    LET widths == definitions[prog.op].OperandWidth
    IN /\ Len(output.instruction) = 1 + Sum(widths, Len(widths))
       /\ output.instruction[1] = prog.op
       /\ \A i \in 1..Len(widths) :
            SubSeq(output.instruction, 1 + Sum(widths, i - 1) + 1, 1 + Sum(widths, i))
              = BigEndian(prog.operands[i], widths[i])

\* the value of the last statement of the line just run, the names read
\* in the globals as the line left them; a let statement has the value
\* it binds
LastStatementValue ==
  IF Len(prog.Statements) = 0 THEN NoValue
  ELSE LET last == prog.Statements[Len(prog.Statements)]
       IN IF last.kind = "LetStatement" THEN Denote(last.Value, lastStored).v
          ELSE Denote(last, lastStored).v

\* C14: when a line has run without error, the REPL prints the last popped
\* stack element, which is not nil and is the value of the line's last
\* statement.
C14_ReplPrintsLastValue ==
  [][(Report /\ vm.status = "done") =>
       /\ output'.kind = "value"
       /\ output'.stackTop = LastPoppedStackElement(vm)
       /\ output'.stackTop # nil
       /\ Content(output'.stackTop) = LastStatementValue]_vars

RECURSIVE Identifiers(_)
\* the names of the identifiers that occur in a node
Identifiers(node) ==
  CASE node = nilNode -> {}
    [] node.kind = "Identifier" -> {node.Value}
    [] node.kind = "LetStatement" -> Identifiers(node.Value)
    [] node.kind = "ExpressionStatement" -> Identifiers(node.Expression)
    [] node.kind \in {"RootStatement", "BlockStatement"} ->
         UNION {Identifiers(node.Statements[i]) : i \in DOMAIN node.Statements}
    [] node.kind = "PrefixExpression" -> Identifiers(node.Right)
    [] node.kind = "InfixExpression" ->
         Identifiers(node.Left) \cup Identifiers(node.Right)
    [] node.kind = "IndexExpression" ->
         Identifiers(node.Left) \cup Identifiers(node.Index)
    [] node.kind = "IfExpression" ->
         Identifiers(node.Condition) \cup Identifiers(node.Consequence)
           \cup Identifiers(node.Alternative)
    [] node.kind = "ArrayLiteral" ->
         UNION {Identifiers(node.Elements[i]) : i \in DOMAIN node.Elements}
    [] node.kind = "HashLiteral" ->
         UNION {Identifiers(node.Pairs[i][1]) \cup Identifiers(node.Pairs[i][2]) :
                  i \in DOMAIN node.Pairs}
    [] OTHER -> {}

\* the let statements among the first k statements of a line
LetsBefore(root, k) ==
  {j \in 1..k : root.Statements[j].kind = "LetStatement"}

\* the names defined when statement i of a line is compiled: those of the
\* table the line started with and those of the lets before it
DefinedAt(table, root, i) ==
  (DOMAIN table.store) \cup {root.Statements[j].Name : j \in LetsBefore(root, i - 1)}

\* statement i of the line is a let whose value reads a name that is not
\* defined, and it is the first statement of the line to do so
LetOfUndefined(table, root, i) ==
  /\ root.Statements[i].kind = "LetStatement"
  /\ ~(Identifiers(root.Statements[i].Value) \subseteq DefinedAt(table, root, i))
  /\ \A j \in 1..(i - 1) :
       Identifiers(root.Statements[j]) \subseteq DefinedAt(table, root, j)

\* the OpSetGlobal instructions of a sequence of instructions
SetGlobals(in) == {d \in Disassemble(in, 0) : d.op = OpSetGlobal}

\* C15: a let whose value reads an undefined name makes Compile return
\* `undefined variable: <name>`; the let's name is not defined and no
\* OpSetGlobal is emitted for it.
C15_LetValueCompiledFirst ==
  [][\A i \in 1..(IF prog'.kind = "RootStatement" THEN Len(prog'.Statements) ELSE 0) :
       (ReadLine(ReplLines, MaxLines) /\ LetOfUndefined(symbolTable, prog', i)) =>
         /\ cmp'.err \in {<<"undefined variable:", n>> :
              n \in Identifiers(prog'.Statements[i].Value)
                      \ DefinedAt(symbolTable, prog', i)}
         /\ Len(cmp'.newDefs) = Cardinality(LetsBefore(prog', i - 1))
         /\ symbolTable'.defCount = symbolTable.defCount + Len(cmp'.newDefs)
         /\ Cardinality(SetGlobals(cmp'.instructions)) = Len(cmp'.newDefs)]_vars

\* C16: the symbol Define returns has the number of earlier Define calls
\* on the same table as its index (a name defined again gets a new one),
\* and is Global exactly when the table has no outer table.
C16_DefineIndexAndScope ==
  (pc = "symbols" /\ prog.kind = "Define") =>
    /\ output.symbol.Name = prog.name
    /\ output.symbol.Index = Len(defLog[prog.table]) - 1
    /\ output.symbol.Scope = GlobalScope <=> prog.table = 1
    /\ output.symbol.Scope \in {GlobalScope, LocalScope}

\* a name is defined a second time, in an enclosed table, after another
\* definition: the symbol returned is Local with index 2
C16_Witness ==
  /\ pc = "symbols" /\ prog.kind = "Define" /\ prog.table = 2
  /\ defLog[2] = <<"a", "b", "a">>
  /\ output.symbol = [Name |-> "a", Scope |-> LocalScope, Index |-> 2]

\* the tables of the chain of table t that have had name defined
Defining(t, name) ==
  {u \in 1..t : \E i \in DOMAIN defLog[u] : defLog[u][i] = name}

\* the position of the last definition of name in table u
LastDefinition(u, name) ==
  CHOOSE i \in DOMAIN defLog[u] :
    /\ defLog[u][i] = name
    /\ \A j \in DOMAIN defLog[u] : defLog[u][j] = name => j <= i

\* C17: Resolve returns the symbol of the latest definition of the name in
\* the innermost table of the chain that defines it, and reports a miss
\* exactly when no table of the chain defines the name.
C17_ResolveInnermost ==
  (pc = "symbols" /\ prog.kind = "Resolve") =>
    LET ds == Defining(prog.table, prog.name)
    IN /\ output.ok <=> ds # {}
       /\ output.ok =>
            LET u == CHOOSE x \in ds : \A y \in ds : y <= x
            IN output.symbol =
                 [Name |-> prog.name,
                  Scope |-> IF u = 1 THEN GlobalScope ELSE LocalScope,
                  Index |-> LastDefinition(u, prog.name) - 1]

\* a name defined twice in the global table and once, later, in a table
\* enclosed in it is resolved from the innermost of three tables: the
\* symbol is the one of the middle table
C17_Witness ==
  /\ pc = "symbols" /\ prog = [kind |-> "Resolve", table |-> 3, name |-> "a"]
  /\ defLog = << <<"a", "b", "a">>, <<"a">>, << >> >>
  /\ output = [kind |-> "Resolved", ok |-> TRUE,
               symbol |-> [Name |-> "a", Scope |-> LocalScope, Index |-> 0]]

\* the statement evaluated by the step is a call push(x, y), on its own
\* or as the value of a let, with x bound to an array and y bound
PushOf(stmt) ==
  LET call == IF stmt.kind = "LetStatement" THEN stmt.Value ELSE stmt.Expression
  IN IF /\ call.kind = "CallExpression"
        /\ call.Function = Identifier("push")
        /\ Len(call.Arguments) = 2
        /\ \A i \in 1..2 : /\ call.Arguments[i].kind = "Identifier"
                           /\ call.Arguments[i].Value \in DOMAIN evalEnv
       THEN [ok |-> evalEnv[call.Arguments[1].Value].type = ARRAY_OBJ,
             a |-> evalEnv[call.Arguments[1].Value],
             v |-> evalEnv[call.Arguments[2].Value],
             let |-> stmt.kind = "LetStatement"]
       ELSE [ok |-> FALSE]

\* C18: push(a, v) returns a new array, one element longer than a, made
\* of the elements of a in order followed by v; a and every other array
\* keep their elements.
C18_PushReturnsNewArray ==
  [][\A stmt \in EvalStatements :
       (EvalStatement /\ stmt = prog.Statements[nlines + 1] /\ PushOf(stmt).ok) =>
         LET p == PushOf(stmt)
             r == IF p.let THEN evalEnv'[stmt.Name] ELSE output'.result
         IN /\ r.type = ARRAY_OBJ
            /\ r.ref \notin DOMAIN heap
            /\ Len(heap'[r.ref]) = Len(heap[p.a.ref]) + 1
            /\ SubSeq(heap'[r.ref], 1, Len(heap[p.a.ref])) = heap[p.a.ref]
            /\ heap'[r.ref][Len(heap'[r.ref])] = p.v
            /\ \A k \in DOMAIN heap : heap'[k] = heap[k]]_vars

\* push(a, b) has been evaluated with a = [1, 2] and b = 3: c is a new
\* array [1, 2, 3] and a still is [1, 2]
C18_Witness ==
  /\ pc = "evaluate" /\ nlines = 3
  /\ prog.Statements[3] = LetStatement("c", Call("push", <<Identifier("a"), Identifier("b")>>))
  /\ heap[evalEnv["a"].ref] = <<Integer(1), Integer(2)>>
  /\ evalEnv["c"].ref # evalEnv["a"].ref
  /\ heap[evalEnv["c"].ref] = <<Integer(1), Integer(2), Integer(3)>>

\* the Error values the built-ins return for their arguments
IsBuiltInError(ob) ==
  /\ isError(ob)
  /\ ob.Message[1] \in {"wrong number of arguments. got=", "argument to"}

\* C19: a built-in called with the wrong number or type of arguments
\* returns an Error value and the program goes on: the statements after
\* the call are evaluated too.
C19_BuiltInErrorDoesNotAbort ==
  [][(EvalStatement /\ IsBuiltInError(output'.result)) =>
       (pc' = "evaluate" \/ nlines' = Len(prog.Statements))]_vars

RECURSIVE OffsetOf(_, _)
\* the offset of instruction k of a list: one byte and the declared
\* operand widths for every instruction before it
OffsetOf(list, k) ==
  IF k = 1 THEN 0
  ELSE LET widths == definitions[list[k - 1].op].OperandWidth
       IN OffsetOf(list, k - 1) + 1 + Sum(widths, Len(widths))

\* the four digits of an offset below 10000
FourDigits(o) == <<(o \div 1000) % 10, (o \div 100) % 10, (o \div 10) % 10, o % 10>>

\* C20: String prints one line per instruction: the four-digit offset of
\* its opcode, the name of the opcode and its operand; the offsets of
\* consecutive lines differ by one plus the operand width.
C20_StringLines ==
  pc = "printed" =>
    /\ Len(output.lines) = Len(prog.list)
    /\ \A k \in 1..Len(prog.list) :
         output.lines[k] =
           [offset |-> FourDigits(OffsetOf(prog.list, k)),
            str |-> <<definitions[prog.list[k].op].Name>>
                      \o [i \in 1..Len(prog.list[k].operands) |->
                            Decimal(prog.list[k].operands[i])]]

\* C21: the branch of an if-expression that is run leaves exactly one
\* value more on the stack.  For an if-expression that is the only
\* statement of a program the stack is empty once the condition is
\* popped, so the run reaches the end of the if-expression (the OpPop of
\* the statement, the last instruction) with one value on the stack.
C21_BranchPushesOne ==
  (/\ IsSingle /\ TheExpr.kind = "IfExpression"
   /\ pc = "run" /\ vm.status = "running"
   /\ vm.ip = Len(vm.instructions) - 1)
    => vm.sp = 1

\* C22: in a REPL session every OpGetGlobal that is executed reads a
\* globals slot that holds a value stored by an earlier OpSetGlobal.
C22_GlobalReadAfterWrite ==
  [][(Step /\ CurrentOp = OpGetGlobal) => At(vm.globals, CurrentOperand) # nil]_vars

\* C23: every jump the compiler has emitted for the last statement of
\* a program goes forward: its target is greater than its own offset.
C23_JumpsForward ==
  (pc = "compiled" /\ cmp.err = NoErr) =>
    \A d \in Disassemble(cmp.instructions, 4 * nlines) :
      d.op \in {OpJump, OpJumpNotTruthy} => d.operands[1] > d.pos

\* the two operands of a binary instruction: stack[sp-2] and stack[sp-1]
LeftOperand == At(vm.stack, vm.sp - 2)
RightOperand == At(vm.stack, vm.sp - 1)

\* the error an arithmetic instruction owes for an invalid operand pair
InvalidPairError(op, left, right) ==
  IF Type(left) = INTEGER_OBJ /\ Type(right) = INTEGER_OBJ
    THEN IF op = OpDiv /\ right.Value = 0 THEN <<"division by zero">> ELSE NoErr
  ELSE IF Type(left) = STRING_OBJ /\ Type(right) = STRING_OBJ
    THEN IF op # OpAdd THEN <<"invalid string operation:", op>> ELSE NoErr
  ELSE <<"invalid types for binary operation:", Type(left), Type(right)>>

\* C24: OpAdd, OpSub, OpMul and OpDiv on an invalid operand pair return
\* an error and push nothing: "division by zero" for an Integer divisor
\* of 0, "invalid string operation" for two Strings and an operation
\* other than OpAdd, "invalid types for binary operation" with the type of
\* the left and of the right operand for every other mix.
C24_InvalidPairGivesError ==
  [][ (/\ Step /\ CurrentOp \in ArithmeticOps
       /\ InvalidPairError(CurrentOp, LeftOperand, RightOperand) # NoErr)
      => /\ vm'.status = "error"
         /\ vm'.err = InvalidPairError(CurrentOp, LeftOperand, RightOperand)
         /\ vm'.stack = vm.stack
         /\ vm'.sp = vm.sp - 2 ]_vars

\* "foo" - "bar" has failed and both operands are where they were
C24_Witness ==
  /\ vm.status = "error"
  /\ vm.err = <<"invalid string operation:", OpSub>>
  /\ vm.sp = 0
  /\ At(vm.stack, 0).type = STRING_OBJ /\ At(vm.stack, 1).type = STRING_OBJ

\* the program is a < b for two integer literals a and b
IsLessThan ==
  /\ IsSingle /\ TheExpr.kind = "InfixExpression" /\ TheExpr.Operator = "<"
  /\ TheExpr.Left.kind = "IntegerLiteral" /\ TheExpr.Right.kind = "IntegerLiteral"

\* C25: the code compiled for a < b over two integers is the code
\* compiled for b > a, that is b, then a, then OpGreaterThan, and running
\* it leaves True exactly when a < b.
C25_LessThanIsSwappedGreaterThan ==
  IsLessThan =>
    LET a == TheExpr.Left
        b == TheExpr.Right
        swapped == Compile(Single(InfixExpression(b, ">", a)), NewCompiler)
    IN /\ pc # "fatal"
       /\ pc = "run" =>
            /\ cmp.instructions = swapped.instructions
            /\ cmp.constants = swapped.constants
            /\ cmp.instructions = MakeInstruction(OpConstant, <<0>>)
                                    \o MakeInstruction(OpConstant, <<1>>)
                                    \o MakeInstruction(OpGreaterThan, << >>)
                                    \o MakeInstruction(OpPop, << >>)
            /\ cmp.constants = Objects(<<Integer(b.Value), Integer(a.Value)>>)
       /\ RunEnded =>
            /\ vm.status = "done"
            /\ LastPoppedStackElement(vm) = boolNativeToBoolObject(a.Value < b.Value)

\* 1 < 2 has run and left True, 2 < 1 would leave False
C25_Witness ==
  /\ prog = Single(InfixExpression(IntegerLiteral(1), "<", IntegerLiteral(2)))
  /\ pc = "run" /\ vm.status = "done"
  /\ LastPoppedStackElement(vm) = True

\* the statement evaluated last is a call of a built-in, whose result
\* is what the built-in returned
BuiltInReturned ==
  /\ output.kind = "result" /\ nlines > 0
  /\ prog.Statements[nlines].kind = "ExpressionStatement"
  /\ prog.Statements[nlines].Expression.kind = "CallExpression"
  /\ output.result # nil

\* C26: there is one True, one False and one Null: every Boolean or Null
\* on the stack of the VM and every Boolean or Null a built-in has returned
\* is one of these three objects.
C26_CanonicalInstances ==
  /\ \A i \in 0..(vm.sp - 1) :
       (At(vm.stack, i) # nil /\ At(vm.stack, i).type \in {BOOLEAN_OBJ, NULL_OBJ})
         => At(vm.stack, i) \in {True, False, Null}
  /\ (BuiltInReturned /\ output.result.type \in {BOOLEAN_OBJ, NULL_OBJ})
       => output.result \in {True, False, Null}

\* RunVM is about to execute a comparison on two objects that are not
\* both Integer
AboutComparison ==
  /\ Step /\ CurrentOp \in {OpEqual, OpNotEqual, OpGreaterThan}
  /\ LeftOperand # nil /\ RightOperand # nil
  /\ ~(Type(LeftOperand) = INTEGER_OBJ /\ Type(RightOperand) = INTEGER_OBJ)

\* the two operands are one object: the same singleton, or the same
\* allocation of a String, Array or Hash
SameObject(l, r) ==
  \/ l \in {True, False, Null} /\ r = l
  \/ /\ l.type \in {STRING_OBJ, ARRAY_OBJ, HASH_OBJ} /\ r.type = l.type
     /\ r.ref = l.ref

\* C27: on operands that are not both Integer OpEqual leaves True exactly
\* when the two operands are the same object (for Booleans and Null: the
\* same singleton) and OpNotEqual exactly when they are not; OpGreaterThan
\* returns an error and pushes nothing.
C27_ComparisonByIdentity ==
  [][ AboutComparison =>
        IF CurrentOp = OpGreaterThan
          THEN /\ vm'.status = "error"
               /\ vm'.err = <<"invalid operator:", OpGreaterThan,
                              Type(LeftOperand), Type(RightOperand)>>
               /\ vm'.stack = vm.stack
               /\ vm'.sp = vm.sp - 2
          ELSE /\ vm'.status = "running"
               /\ vm'.sp = vm.sp - 1
               /\ At(vm'.stack, vm.sp - 2) =
                    boolNativeToBoolObject(
                      (CurrentOp = OpEqual) = SameObject(LeftOperand, RightOperand)) ]_vars

\* [] == [] has run: two arrays of the same elements are not equal
C27_Witness ==
  /\ vm.status = "done"
  /\ vm.instructions = MakeInstruction(OpArray, <<0>>) \o MakeInstruction(OpArray, <<0>>)
                         \o MakeInstruction(OpEqual, << >>) \o MakeInstruction(OpPop, << >>)
  /\ LastPoppedStackElement(vm) = False

\* C28: OpJumpNotTruthy on a stack that holds a value pops that one
\* value; the next instruction fetched is the one at its operand when the
\* value is False or Null and the one after the three bytes of the jump
\* for every other value, Integer 0 included.  After OpJump the next
\* instruction fetched is the one at its operand.
C28_JumpSemantics ==
  [][ /\ (Step /\ CurrentOp = OpJumpNotTruthy /\ vm.sp >= 1) =>
           /\ vm'.status = "running"
           /\ vm'.sp = vm.sp - 1
           /\ vm'.stack = vm.stack
           /\ vm'.ip = IF RightOperand \in {False, Null}
                         THEN CurrentOperand
                         ELSE vm.ip + 3
      /\ (Step /\ CurrentOp = OpJump) =>
           /\ vm'.status = "running"
           /\ vm'.sp = vm.sp /\ vm'.stack = vm.stack
           /\ vm'.ip = CurrentOperand ]_vars

\* the Integer 0 was the condition: OpJumpNotTruthy went on to OpTrue and
\* the OpJump after it went over OpFalse to the last OpPop
C28_Witness ==
  /\ vm.instructions = MakeInstruction(OpConstant, <<1>>)
                         \o MakeInstruction(OpJumpNotTruthy, <<10>>)
                         \o MakeInstruction(OpTrue, << >>)
                         \o MakeInstruction(OpJump, <<11>>)
                         \o MakeInstruction(OpFalse, << >>)
                         \o MakeInstruction(OpPop, << >>)
  /\ ObjectAt(vm.constants, 1) = Integer(0)
  /\ vm.status = "done"
  /\ LastPoppedStackElement(vm) = True

\* C29: OpBang puts True in the place of the top of the stack when it is
\* False or Null and False when it is anything else (True, an Integer, 0
\* included, a String, an Array, a Hash); sp and the slots below stay;
\* the result is True exactly when the value is not truthy for
\* OpJumpNotTruthy.
C29_BangNegatesTruthiness ==
  [][ (Step /\ CurrentOp = OpBang /\ vm.sp >= 1) =>
        /\ vm'.status = "running"
        /\ vm'.sp = vm.sp
        /\ vm'.stack = Put(vm.stack, vm.sp - 1,
                           IF RightOperand \in {False, Null} THEN True ELSE False)
        /\ (At(vm'.stack, vm.sp - 1) = True) = ~isTruthy(RightOperand) ]_vars

\* !0 has run and left False
C29_Witness ==
  /\ vm.instructions = MakeInstruction(OpTrue, << >>) \o MakeInstruction(OpConstant, <<1>>)
                         \o MakeInstruction(OpBang, << >>) \o MakeInstruction(OpPop, << >>)
  /\ ObjectAt(vm.constants, 1) = Integer(0)
  /\ vm.status = "done"
  /\ LastPoppedStackElement(vm) = False

\* C30: OpIndex on an Array and an Integer index pops both and pushes
\* the element at that index, Null when the index is negative or greater
\* than length - 1.
C30_IndexOfArray ==
  [][ (/\ Step /\ CurrentOp = OpIndex /\ vm.sp >= 2
       /\ LeftOperand # nil /\ RightOperand # nil
       /\ Type(LeftOperand) = ARRAY_OBJ /\ Type(RightOperand) = INTEGER_OBJ)
      => LET elements == LeftOperand.Elements
             idx == RightOperand.Value
         IN /\ vm'.status = "running"
            /\ vm'.sp = vm.sp - 1
            /\ At(vm'.stack, vm.sp - 2) =
                 IF idx < 0 \/ idx > Len(elements) - 1 THEN Null
                 ELSE elements[idx + 1] ]_vars

RECURSIVE Emitted(_, _)
\* the instructions in the stream after the first k calls of the log, as
\* [OpCode, Position], first to last: an emit adds one at the end, a
\* removeLastPop leaves those that start before the new end
Emitted(log, k) ==
  IF k = 0 THEN << >>
  ELSE LET before == Emitted(log, k - 1)
           e == log[k]
       IN IF e.call = "emit"
            THEN Append(before, [OpCode |-> e.op, Position |-> e.from])
            ELSE SelectSeq(before, LAMBDA x : x.Position < e.len)

\* C31: after every call of emit and of removeLastPop that Compile has
\* made, lastInstruction is the opcode and offset of the final instruction
\* of a non-empty stream; a removeLastPop has cut the stream at the start
\* of its final instruction, an OpPop of one byte, and has removed this
\* one instruction.
C31_LastInstructionTracksStream ==
  \A k \in 1..Len(cmp.callLog) :
    LET e == cmp.callLog[k]
        now == Emitted(cmp.callLog, k)
        before == Emitted(cmp.callLog, k - 1)
    IN /\ e.len > 0 => (Len(now) > 0 /\ e.last = now[Len(now)])
       /\ e.call = "removeLastPop" =>
            /\ Len(before) > 0
            /\ before[Len(before)].OpCode = OpPop
            /\ e.len = before[Len(before)].Position
            /\ e.len = e.from - 1
            /\ now = SubSeq(before, 1, Len(before) - 1)

\* if (true) { if (true) { 1 } } is compiled: removeLastPop has been
\* called twice
C31_Witness ==
  /\ pc = "run"
  /\ prog = Single(IfExpression(Boolean(TRUE),
                     Block1(IfExpression(Boolean(TRUE), Block1(Lit(1)), nilNode)),
                     nilNode))
  /\ Len(SelectSeq(cmp.callLog, LAMBDA e : e.call = "removeLastPop")) = 2

\* the offsets at which an instruction of the compiled stream starts,
\* and its end: nlines statements "a;" of four bytes each (OpGetGlobal at
\* 4k, OpPop at 4k + 3), then the instructions of the last statement
InstructionStarts ==
  {o \in 0..(4 * nlines - 1) : o % 4 \in {0, 3}}
    \cup {d.pos : d \in Disassemble(cmp.instructions, 4 * nlines)}
    \cup {Len(cmp.instructions)}

\* C32: in the bytecode of a successful compile the target of every
\* OpJump and OpJumpNotTruthy is the offset of the first byte of an
\* instruction or the end of the stream, never that of an operand byte.
C32_JumpTargetsAreInstructionStarts ==
  (pc \in {"compiled", "run"} /\ cmp.err = NoErr) =>
    \A d \in Disassemble(cmp.instructions, 4 * nlines) :
      d.op \in {OpJump, OpJumpNotTruthy} => d.operands[1] \in InstructionStarts

RECURSIVE InLanguage(_)
\* the node is built from integer and boolean literals, prefix and infix
\* operators, let statements, identifiers and if-expressions
InLanguage(node) ==
  CASE node.kind \in {"IntegerLiteral", "Boolean", "Identifier"} -> TRUE
    [] node.kind \in {"RootStatement", "BlockStatement"} ->
         \A i \in 1..Len(node.Statements) : InLanguage(node.Statements[i])
    [] node.kind = "LetStatement" -> InLanguage(node.Value)
    [] node.kind = "ExpressionStatement" -> InLanguage(node.Expression)
    [] node.kind = "PrefixExpression" -> InLanguage(node.Right)
    [] node.kind = "InfixExpression" -> InLanguage(node.Left) /\ InLanguage(node.Right)
    [] node.kind = "IfExpression" ->
         /\ InLanguage(node.Condition) /\ InLanguage(node.Consequence)
         /\ node.Alternative # nilNode => InLanguage(node.Alternative)
    [] OTHER -> FALSE

\* such a program, whose last statement is an expression statement
EndsInExpression ==
  /\ prog.kind = "RootStatement" /\ Len(prog.Statements) > 0
  /\ prog.Statements[Len(prog.Statements)].kind = "ExpressionStatement"
  /\ InLanguage(prog)

\* what a run has come to: "value" with an Integer, Boolean or Null,
\* "fail" for an error or a panic, "none" when there is no object
Outcome(failed, ob) ==
  IF failed THEN [kind |-> "fail"]
  ELSE IF ob = nil THEN [kind |-> "none"]
  ELSE IF ob.type = INTEGER_OBJ THEN [kind |-> "value", type |-> INTEGER_OBJ, int |-> ob.Value]
  ELSE IF ob.type = BOOLEAN_OBJ THEN [kind |-> "value", type |-> BOOLEAN_OBJ, bool |-> ob.Value]
  ELSE IF ob.type = NULL_OBJ THEN [kind |-> "value", type |-> NULL_OBJ]
  ELSE [kind |-> "other", type |-> ob.type]

\* Evaluate(program, object.NewEnvironment())
EvaluateOutcome ==
  LET r == Evaluate(prog, NewEnvironment, << >>).v
  IN Outcome(stops(r), r)

\* Compile, then RunVM and LastPoppedStackElement
PipelineOutcome ==
  IF pc = "fatal" THEN Outcome(TRUE, nil)
  ELSE Outcome(vm.status \in {"error", "panic"}, LastPoppedStackElement(vm))

\* C33: on a program of integer and boolean literals, operators, lets,
\* identifiers and if-expressions that ends in an expression statement,
\* Evaluate and Compile + RunVM both fail or both yield the same Integer,
\* Boolean or Null.
C33_EvaluatorAndVMAgree ==
  (EndsInExpression /\ (pc = "fatal" \/ RunEnded)) =>
    /\ EvaluateOutcome.kind \in {"value", "fail"}
    /\ PipelineOutcome = EvaluateOutcome

\* the keys and the values OpHash finds in stack[sp-n .. sp): pair j is
\* at sp - n + 2(j - 1)
HashKeyAt(j) == At(vm.stack, vm.sp - CurrentOperand + 2 * (j - 1))
HashValueAt(j) == At(vm.stack, vm.sp - CurrentOperand + 2 * (j - 1) + 1)

\* RunVM is about to execute OpHash n on n objects that are on the stack
AboutHash ==
  /\ Step /\ CurrentOp = OpHash
  /\ CurrentOperand % 2 = 0 /\ CurrentOperand <= vm.sp
  /\ \A j \in 1..(CurrentOperand \div 2) : HashKeyAt(j) # nil

\* the first key of stack[sp-n .. sp) that is not hashable, 0 when all are
FirstUnusableKey ==
  LET bad == {j \in 1..(CurrentOperand \div 2) : ~Hashable(HashKeyAt(j))}
  IN IF bad = {} THEN 0 ELSE CHOOSE j \in bad : \A k \in bad : j <= k

\* one pair per distinct key of stack[sp-n .. sp), the last pair of a key
ExpectedPairs ==
  LET count == CurrentOperand \div 2
      lastOf(hk) == CHOOSE j \in 1..count :
                      /\ HashKey(HashKeyAt(j)) = hk
                      /\ \A k \in 1..count : HashKey(HashKeyAt(k)) = hk => k <= j
  IN [hk \in {HashKey(HashKeyAt(j)) : j \in 1..count} |->
        [Key |-> HashKeyAt(lastOf(hk)), Value |-> HashValueAt(lastOf(hk))]]

\* the error of OpHash on a key that is not hashable: sp and the stack stay
UnusableKeyReturned ==
  /\ vm'.status = "error"
  /\ vm'.err = <<"unusable as hash key:", Type(HashKeyAt(FirstUnusableKey))>>
  /\ vm'.sp = vm.sp
  /\ vm'.stack = vm.stack

\* the Hash of the pairs is on top, sp is sp - n + 1, the slots below stay
HashPushed ==
  /\ vm'.status = "running"
  /\ vm'.sp = vm.sp - CurrentOperand + 1
  /\ At(vm'.stack, vm'.sp - 1).type = HASH_OBJ
  /\ At(vm'.stack, vm'.sp - 1).Pairs = ExpectedPairs
  /\ \A i \in 0..(vm.sp - CurrentOperand - 1) : At(vm'.stack, i) = At(vm.stack, i)

\* C34 as stated: OpHash n takes stack[sp-n .. sp) as key, value pairs in
\* order and pushes a Hash with one pair per distinct key, the last pair of
\* a key that comes twice, with sp at sp - n + 1; when a key is not hashable
\* it returns "unusable as hash key" with the type of the key and sp stays.
C34_HashFromPairs ==
  [][ AboutHash =>
        IF FirstUnusableKey # 0 THEN UnusableKeyReturned ELSE HashPushed ]_vars

\* C34 amended: the same, except that OpHash 0 on a full stack
\* (sp = StackSize) pushes nothing and returns "stack overflow", sp and the
\* stack staying as they were.
C34_HashFromPairsWithRoom ==
  [][ AboutHash =>
        IF FirstUnusableKey # 0 THEN UnusableKeyReturned
        ELSE IF vm.sp - CurrentOperand >= StackSize
          THEN /\ vm'.status = "error"
               /\ vm'.err = <<"stack overflow">>
               /\ vm'.sp = vm.sp - CurrentOperand
               /\ vm'.stack = vm.stack
        ELSE HashPushed ]_vars

\* {1: 1, 1: false} has been built: one pair, the second
C34_Witness ==
  /\ vm.status = "done"
  /\ vm.instructions = MakeInstruction(OpConstant, <<0>>) \o MakeInstruction(OpConstant, <<0>>)
                         \o MakeInstruction(OpConstant, <<0>>) \o MakeInstruction(OpFalse, << >>)
                         \o MakeInstruction(OpHash, <<4>>) \o MakeInstruction(OpPop, << >>)
  /\ LastPoppedStackElement(vm).type = HASH_OBJ
  /\ LastPoppedStackElement(vm).Pairs =
       [hk \in {HashKey(Integer(1))} |-> [Key |-> Integer(1), Value |-> False]]

\* RunVM is about to execute OpArray n with n <= sp
AboutArray == Step /\ CurrentOp = OpArray /\ CurrentOperand <= vm.sp

\* the Array of stack[sp-n .. sp), bottom-most first, is on top, sp is
\* sp - n + 1, the slots below sp - n stay
ArrayPushed ==
  /\ vm'.status = "running"
  /\ vm'.sp = vm.sp - CurrentOperand + 1
  /\ At(vm'.stack, vm'.sp - 1).type = ARRAY_OBJ
  /\ At(vm'.stack, vm'.sp - 1).Elements =
       [k \in 1..CurrentOperand |-> At(vm.stack, vm.sp - CurrentOperand + k - 1)]
  /\ \A i \in 0..(vm.sp - CurrentOperand - 1) : At(vm'.stack, i) = At(vm.stack, i)

\* C35 as stated: OpArray n with n <= sp builds an Array of stack[sp-n .. sp)
\* in stack order, leaves it on top with sp at sp - n + 1 and the slots
\* below sp - n unchanged; OpArray 0 pushes an empty array.
C35_ArrayFromStack ==
  [][ AboutArray => ArrayPushed ]_vars

\* C35 amended: the same, except that OpArray 0 on a full stack
\* (sp = StackSize) pushes nothing and returns "stack overflow", sp and the
\* stack staying as they were.
C35_ArrayFromStackWithRoom ==
  [][ AboutArray =>
        IF vm.sp - CurrentOperand >= StackSize
          THEN /\ vm'.status = "error"
               /\ vm'.err = <<"stack overflow">>
               /\ vm'.sp = vm.sp - CurrentOperand
               /\ vm'.stack = vm.stack
          ELSE ArrayPushed ]_vars

\* [1, true] has been built from 1 below true
C35_Witness ==
  /\ vm.status = "done"
  /\ vm.instructions = MakeInstruction(OpConstant, <<0>>) \o MakeInstruction(OpTrue, << >>)
                         \o MakeInstruction(OpArray, <<2>>) \o MakeInstruction(OpPop, << >>)
  /\ LastPoppedStackElement(vm).type = ARRAY_OBJ
  /\ LastPoppedStackElement(vm).Elements = <<Integer(1), True>>

\* ---------------------------------------------------------------------
\* Integer arithmetic at the ends of int64: RunVM on one operation over
\* constants that are small, 2^32, 2^62, 2^63 - 1 and -2^63.
\* ---------------------------------------------------------------------
\* a number as its sign and the base-256 digits of its magnitude, sixteen
\* of them: enough for every sum and product of two int64
Number(neg, low) == [neg |-> neg, mag |-> low \o [i \in 1..8 |-> 0]]

\* the magnitudes of the operands: 0..MaxInt, 2^32, 2^62 and 2^63 - 1
SampleMagnitudes ==
  {Digits64(n) : n \in 0..MaxInt}
    \cup {<<0, 0, 0, 0, 1, 0, 0, 0>>, <<0, 0, 0, 0, 0, 0, 0, 64>>,
          <<255, 255, 255, 255, 255, 255, 255, 127>>}

\* the operands: the magnitudes with either sign, and -2^63
SampleNumbers ==
  {Number(neg, low) : neg \in BOOLEAN, low \in SampleMagnitudes}
    \cup {Number(TRUE, <<0, 0, 0, 0, 0, 0, 0, 128>>)}

\* the int64 a number is modulo 2^64
Wrap64(x) ==
  LET low == SubSeq(x.mag, 1, 8)
  IN IF x.neg THEN Neg64(low) ELSE low

\* the number an int64 is
NumberOf(a) ==
  IF Negative64(a) THEN Number(TRUE, Neg64(a)) ELSE Number(FALSE, a)

\* a < b of two magnitudes
LessMag(a, b) ==
  \E i \in 1..Len(a) : a[i] < b[i] /\ \A j \in (i + 1)..Len(a) : a[j] = b[j]

\* the sum, the difference, the product and the negation of numbers, exact
MathNeg(x) == [neg |-> ~x.neg, mag |-> x.mag]
MathAdd(x, y) ==
  IF x.neg = y.neg THEN [neg |-> x.neg, mag |-> AddDigits(x.mag, y.mag, 1, 0)]
  ELSE IF LessMag(x.mag, y.mag)
    THEN [neg |-> y.neg, mag |-> AddDigits(y.mag, Not64(x.mag), 1, 1)]
  ELSE [neg |-> x.neg, mag |-> AddDigits(x.mag, Not64(y.mag), 1, 1)]
MathSub(x, y) == MathAdd(x, MathNeg(y))
MathMul(x, y) == [neg |-> x.neg # y.neg, mag |-> MulDigits(x.mag, y.mag, 1, 0)]

\* constant 0, constant 1, one binary operation, OpPop; constant 0, OpMinus,
\* OpPop
IntPrograms ==
  { Ins1(OpConstant, 0) \o Ins1(OpConstant, 1) \o Ins(op) \o Ins(OpPop) :
      op \in {OpAdd, OpSub, OpMul} }
    \cup { Ins1(OpConstant, 0) \o Ins(OpMinus) \o Ins(OpPop) }

InitInt ==
  /\ evalEnv = NewEnvironment
  /\ heap = << >>
  /\ pc = "run"
  /\ prog = nilNode
  /\ cmp = NewCompiler
  /\ symbolTable = NewSymbolTable
  /\ constants = NoObjects
  /\ globals = emptySlice
  /\ \E p \in IntPrograms, x \in SampleNumbers, y \in SampleNumbers :
       vm = NewVM([Instructions |-> p,
                   Constants |-> Objects(<<Integer64(Wrap64(x)), Integer64(Wrap64(y))>>)])
  /\ output = noOutput
  /\ nlines = 0
  /\ defLog = << >>
  /\ lastStored = << >>

NextInt == Step \/ Return

SpecInt == InitInt /\ [][NextInt]_vars

\* the object is an Integer
IsInteger(ob) == ob # nil /\ Type(ob) = INTEGER_OBJ

\* the int64 the step leaves on top of the stack is the exact result
\* modulo 2^64
PushesWrapped(x) ==
  /\ vm'.status = "running"
  /\ IsInteger(At(vm'.stack, vm'.sp - 1))
  /\ Value64(At(vm'.stack, vm'.sp - 1)) = Wrap64(x)

\* C36: OpAdd, OpSub, OpMul and OpMinus on Integers push the int64 that is
\* the exact sum, difference, product or negation modulo 2^64 (so the
\* negation of -2^63 is -2^63) and never return an error.
C36_IntegersWrap ==
  [][ /\ (Step /\ CurrentOp \in {OpAdd, OpSub, OpMul} /\ vm.sp >= 2
            /\ IsInteger(LeftOperand) /\ IsInteger(RightOperand))
        => LET x == NumberOf(Value64(LeftOperand))
               y == NumberOf(Value64(RightOperand))
           IN PushesWrapped(CASE CurrentOp = OpAdd -> MathAdd(x, y)
                              [] CurrentOp = OpSub -> MathSub(x, y)
                              [] CurrentOp = OpMul -> MathMul(x, y))
      /\ (Step /\ CurrentOp = OpMinus /\ vm.sp >= 1 /\ IsInteger(RightOperand))
        => PushesWrapped(MathNeg(NumberOf(Value64(RightOperand)))) ]_vars

\* (2^63 - 1) + 1 has run: the result is -2^63
C36_Witness ==
  /\ vm.status = "done"
  /\ vm.instructions = MakeInstruction(OpConstant, <<0>>) \o MakeInstruction(OpConstant, <<1>>)
                         \o MakeInstruction(OpAdd, << >>) \o MakeInstruction(OpPop, << >>)
  /\ Value64(ObjectAt(vm.constants, 0)) = <<255, 255, 255, 255, 255, 255, 255, 127>>
  /\ Value64(ObjectAt(vm.constants, 1)) = ToInt64(1)
  /\ IsInteger(LastPoppedStackElement(vm))
  /\ Value64(LastPoppedStackElement(vm)) = <<0, 0, 0, 0, 0, 0, 0, 128>>

\* NewFrame(fn, bp); no function of the repository calls it
NewFrame(fn, bp) == [fn |-> fn, ip |-> -1, basePointer |-> bp]

\* the frames a VM holds: the VM struct has the fields instructions,
\* constants, stack, sp and globals, none of them a Frame or a slice of
\* Frames, and NewVM makes no Frame
frames(m) == << >>
\* the number of frames of the VM
frameIndex(m) == Len(frames(m))

\* C37: while RunVM is executing the VM holds at least one frame, the
\* first of them the frame of the main program, made when the VM was made
\* with its instruction pointer at -1 and advanced before each fetch: when
\* nothing has been fetched yet the instruction pointer is -1.
C37_MainFrameWhileRunning ==
  vm.status = "running" =>
    /\ frameIndex(vm) >= 1
    /\ frames(vm)[1].fn.Instructions = vm.instructions
    /\ frames(vm)[1].basePointer = 0
    /\ frames(vm)[1].ip >= -1

\* ---------------------------------------------------------------------
\* changeOperand on a compiler whose stream is a sequence of instructions,
\* at the position of one of them that has an operand.  prog is the call:
\* the instructions of the stream, which of them is patched, the operand.
\* ---------------------------------------------------------------------
\* the operands given to changeOperand: an int, of 16 bits or more
PatchOperands == {0, 1000, 65535, 65537}

\* the calls of changeOperand
PatchTests ==
  {[kind |-> "patch", list |-> l, at |-> k, operand |-> v] :
     l \in UNION {[1..n -> StreamInstructions] : n \in 1..MaxStream},
     k \in 1..MaxStream, v \in PatchOperands}

\* the position of instruction k of the stream
PositionOf(list, k) == Len(Concat(list, k - 1))

InitPatch ==
  /\ evalEnv = NewEnvironment
  /\ heap = << >>
  /\ pc = "patch"
  /\ prog \in {t \in PatchTests :
                 /\ t.at <= Len(t.list)
                 /\ Len(definitions[t.list[t.at].op].OperandWidth) = 1}
  /\ cmp = [NewCompiler EXCEPT !.instructions = Concat(prog.list, Len(prog.list))]
  /\ symbolTable = NewSymbolTable
  /\ constants = NoObjects
  /\ globals = emptySlice
  /\ vm = noVM
  /\ output = noOutput
  /\ nlines = 0
  /\ defLog = << >>
  /\ lastStored = << >>

\* c.changeOperand(pos, operand)
CallChangeOperand ==
  /\ pc = "patch"
  /\ cmp' = changeOperand(cmp, PositionOf(prog.list, prog.at), prog.operand)
  /\ pc' = "patched"
  /\ UNCHANGED <<evalEnv, heap, prog, symbolTable, constants, globals, vm, output,
                 nlines, defLog, lastStored>>

NextPatch == CallChangeOperand

SpecPatch == InitPatch /\ [][NextPatch]_vars

\* C38: changeOperand(pos, operand) leaves the opcode byte at pos, the
\* length of the stream and every byte outside the instruction's operand
\* bytes, pos+1 .. pos+width, as they were.
C38_ChangeOperandFrame ==
  [][ (pc = "patch" /\ pc' = "patched") =>
        LET pos == PositionOf(prog.list, prog.at)
            width == definitions[cmp.instructions[pos + 1]].OperandWidth[1]
        IN /\ Len(cmp'.instructions) = Len(cmp.instructions)
           /\ cmp'.instructions[pos + 1] = cmp.instructions[pos + 1]
           /\ \A i \in 0..(Len(cmp.instructions) - 1) :
                (i < pos \/ i >= pos + 1 + width)
                  => cmp'.instructions[i + 1] = cmp.instructions[i + 1] ]_vars

\* the OpJump in the middle of OpConstant 2, OpJump 256, OpPop has been
\* given the operand 1000: its two operand bytes are 3 and 232
C38_Witness ==
  /\ pc = "patched"
  /\ prog.kind = "patch" /\ prog.at = 2 /\ prog.operand = 1000
  /\ cmp.instructions = <<OpConstant, 0, 2, OpJump, 3, 232, OpPop>>

====
